---- MODULE Spec2Model ----
(***************************************************************************)
(* A model of the in-memory datastore of qedus/appengine                   *)
(* (src/memds/memds.go) together with the key type it is built on          *)
(* (src/ds/ds.go).                                                         *)
(*                                                                         *)
(* A ds.Key is a struct {Namespace, Path} whose Path is a Go slice, so a   *)
(* copy of a key shares the path array of the original.  The model keeps   *)
(* the path arrays of the stored keys in a heap (paths) and a stored or    *)
(* materialized record refers to its array by address (ref).  Keys that a  *)
(* caller passes in are freshly built values, and keys handed back to the  *)
(* caller are recorded by value.                                           *)
(*                                                                         *)
(* A Go panic ends the run: the result "panic" is recorded and no further  *)
(* operation is issued.                                                    *)
(***************************************************************************)
EXTENDS Integers, Sequences, FiniteSets, TLC

\* Bounds of the exploration.
MaxRecords == 2
MaxID == 2
MaxMut == 2
MaxLen == 2

\* Size of the heap of path arrays: every stored record and every
\* materialized record may own one, plus the ones a commit allocates.
MaxAddr == 3 * MaxRecords

(***************************************************************************)
(* ds.Key                                                                  *)
(***************************************************************************)

\* The ID of a path element is an interface{}: nil, an int64 or a string.
NilID == [t |-> "nil", v |-> 0]

IntID(n) == [t |-> "int", v |-> n]

StrID(n) == [t |-> "str", v |-> n]

PathElem(kind, id) == [kind |-> kind, id |-> id]

NewKey(namespace) == [ns |-> namespace, path |-> <<>>]

KeyAppend(k, kind, id) == [ns |-> k.ns, path |-> Append(k.path, PathElem(kind, id))]

\* Key.Equal(k, key): ranges over k's path and indexes key's path with the
\* same index.  "panic" is the index-out-of-range panic.
RECURSIVE EqualFrom(_, _, _)
EqualFrom(kp, keyp, i) ==
    IF i > Len(kp) THEN "true"
    ELSE IF i > Len(keyp) THEN "panic"
    ELSE IF kp[i] # keyp[i] THEN "false"
    ELSE EqualFrom(kp, keyp, i + 1)

\* An Equal that does not look at the namespaces.
EqualAnyNamespace(k, key) == EqualFrom(k.path, key.path, 1)

Equal(k, key) ==
    IF k.ns # key.ns THEN "false" ELSE EqualFrom(k.path, key.path, 1)

IsIncomplete(key) == key.path[Len(key.path)].id = NilID

(***************************************************************************)
(* Entities and the entities argument of Get and Put                       *)
(***************************************************************************)

\* testEntity{Value int64} of the tests.
Entity(v) == [Value |-> v]

ZeroEntity == Entity(0)

Entities == {Entity(1), Entity(2)}

\* One element of the entities slice: a non-nil *S, a nil *S, an S, or a
\* value that is neither (e.g. an int held in an interface{}).
PtrTo(e) == [k |-> "ptr", e |-> e]

NilPtr == [k |-> "nilptr", e |-> ZeroEntity]

StructVal(e) == [k |-> "struct", e |-> e]

OtherVal == [k |-> "other", e |-> ZeroEntity]

\* The entities argument: shape is the static type of the argument
\* ("ptrs" = []*S, "structs" = []S, "ifaces" = []interface{},
\* "notslice" = not a slice).
EntitiesArg(shape, elems) == [shape |-> shape, elems |-> elems]

(***************************************************************************)
(* The store: memDs{keyEntities, lastIntID}                                *)
(***************************************************************************)

VARIABLES keyEntities, paths, lastIntID, iter, tx, mutators, dsSlice, res

vars == <<keyEntities, paths, lastIntID, iter, tx, mutators, dsSlice, res>>

Addrs == 1 .. MaxAddr

\* The key of a stored or materialized record, read through the heap.
KeyOf(hp, ke) == [ns |-> ke.ns, path |-> hp[ke.ref]]

\* The store as the three values the operations thread through.
Store(kes, hp, last) == [kes |-> kes, paths |-> hp, last |-> last]

\* What the last call was given and what it returned: the operation, its
\* keys and entities arguments, the error, the returned keys, the per-index
\* outcome, and (for RunInTransaction) the queue the scope held.  For Run,
\* keys is the root, q the filters and orders the orders, and rkeys and
\* out are the keys and entities the returned iterator yields.
NoResult == [op |-> "none", keys |-> <<>>, ents |-> EntitiesArg("ptrs", <<>>), orders |-> <<>>,
             err |-> "nil", rkeys |-> <<>>, out |-> <<>>, q |-> <<>>]

Result(op, keys, ents, err, rkeys, out) ==
    [op |-> op, keys |-> keys, ents |-> ents, orders |-> <<>>, err |-> err, rkeys |-> rkeys, out |-> out,
     q |-> <<>>]

\* memDs.findKeyEntity: the index of the first record whose key Equal
\* reports equal to key, 0 for nil, -1 when Equal panics on the way.
RECURSIVE findFrom(_, _, _, _)
findFrom(kes, hp, key, i) ==
    IF i > Len(kes) THEN 0
    ELSE LET r == Equal(KeyOf(hp, kes[i]), key)
         IN  IF r = "panic" THEN -1
             ELSE IF r = "true" THEN i
             ELSE findFrom(kes, hp, key, i + 1)

findKeyEntity(S, key) == findFrom(S.kes, S.paths, key, 1)

\* verifyKeysValues
verifyKeysValues(keys, ents) ==
    IF ents.shape = "notslice" THEN "validation"
    ELSE IF Len(keys) # Len(ents.elems) THEN "validation"
    ELSE IF ents.shape \in {"structs", "ptrs"} THEN "nil"
    ELSE IF ents.shape = "ifaces"
         THEN IF \A i \in 1 .. Len(ents.elems) : ents.elems[i].k = "ptr"
              THEN "nil" ELSE "validation"
    ELSE "validation"

\* extractStruct: only a non-nil pointer to a struct is accepted.
extractStruct(el) == IF el.k = "ptr" THEN "nil" ELSE "entity"

\* The first address of the heap that holds no path array.
FreeAddr(hp) == CHOOSE a \in Addrs : hp[a] = <<>> /\ \A b \in Addrs : hp[b] = <<>> => a <= b


\* memDs.get: one index of a Get.  The destination is checked before the
\* lookup; a found record overwrites the destination.
get(S, key, el) ==
    IF extractStruct(el) # "nil" THEN [st |-> "err", e |-> el.e]
    ELSE LET f == findKeyEntity(S, key)
         IN  IF f = -1 THEN [st |-> "panic", e |-> el.e]
             ELSE IF f = 0 THEN [st |-> "notfound", e |-> el.e]
             ELSE [st |-> "found", e |-> S.kes[f].entity]

RECURSIVE getAll(_, _, _, _, _)
getAll(S, keys, elems, i, acc) ==
    IF i > Len(keys) THEN acc
    ELSE LET r == get(S, keys[i], elems[i])
         IN  IF r.st = "panic" THEN Append(acc, r)
             ELSE getAll(S, keys, elems, i + 1, Append(acc, r))

\* memDs.Get: the per-index results and the returned error: "nil" when
\* sparseErrs is empty, otherwise "multi" (a ds.Error of len(keys) entries).
memDsGet(S, keys, ents) ==
    IF verifyKeysValues(keys, ents) # "nil"
    THEN [err |-> "validation", out |-> <<>>]
    ELSE LET out == getAll(S, keys, ents.elems, 1, <<>>)
         IN  IF \E i \in 1 .. Len(out) : out[i].st = "panic"
             THEN [err |-> "panic", out |-> out]
             ELSE IF \A i \in 1 .. Len(out) : out[i].st = "found"
             THEN [err |-> "nil", out |-> out]
             ELSE [err |-> "multi", out |-> out]

\* memDs.put: completes the key, checks the entity, then appends a record
\* or assigns to the copy that findKeyEntity returned.
put(S, key, el) ==
    LET n == Len(key.path)
        last1 == IF IsIncomplete(key) THEN S.last + 1 ELSE S.last
        ckey == IF IsIncomplete(key) THEN [key EXCEPT !.path[n].id = IntID(last1)] ELSE key
        S1 == [S EXCEPT !.last = last1]
    IN  IF el.k \notin {"ptr", "struct"}
        THEN [S |-> S1, key |-> ckey, err |-> "entity"]
        ELSE LET f == findKeyEntity(S1, ckey)
             IN  IF f = -1 THEN [S |-> S1, key |-> ckey, err |-> "panic"]
                 ELSE IF f = 0
                 THEN LET a == FreeAddr(S1.paths)
                      IN  [S |-> [S1 EXCEPT !.kes = Append(@, [ns |-> ckey.ns, ref |-> a, entity |-> el.e]),
                                            !.paths[a] = ckey.path],
                           key |-> ckey, err |-> "nil"]
                 ELSE [S |-> S1, key |-> ckey, err |-> "nil"]

RECURSIVE putAll(_, _, _, _, _)
putAll(S, keys, elems, i, acc) ==
    IF i > Len(keys) THEN [S |-> S, err |-> "nil", rkeys |-> acc]
    ELSE LET r == put(S, keys[i], elems[i])
         IN  IF r.err # "nil" THEN [S |-> r.S, err |-> r.err, rkeys |-> <<>>]
             ELSE putAll(r.S, keys, elems, i + 1, Append(acc, r.key))

\* memDs.Put
memDsPut(S, keys, ents) ==
    IF verifyKeysValues(keys, ents) # "nil"
    THEN [S |-> S, err |-> "validation", rkeys |-> <<>>]
    ELSE putAll(S, keys, ents.elems, 1, <<>>)

\* The sequence s without its i-th element.
RemoveAt(s, i) == SubSeq(s, 1, i - 1) \o SubSeq(s, i + 1, Len(s))

\* memDs.del: removes the first record whose key Equal reports equal.
RECURSIVE delFrom(_, _, _)
delFrom(S, key, i) ==
    IF i > Len(S.kes) THEN [S |-> S, err |-> "nil"]
    ELSE LET r == Equal(KeyOf(S.paths, S.kes[i]), key)
         IN  IF r = "panic" THEN [S |-> S, err |-> "panic"]
             ELSE IF r = "true" THEN [S |-> [S EXCEPT !.kes = RemoveAt(@, i)], err |-> "nil"]
             ELSE delFrom(S, key, i + 1)

del(S, key) == delFrom(S, key, 1)

\* memDs.Delete
RECURSIVE memDsDeleteFrom(_, _, _)
memDsDeleteFrom(S, keys, i) ==
    IF i > Len(keys) THEN [S |-> S, err |-> "nil"]
    ELSE LET r == del(S, keys[i])
         IN  IF r.err # "nil" THEN r ELSE memDsDeleteFrom(r.S, keys, i + 1)

memDsDelete(S, keys) == memDsDeleteFrom(S, keys, 1)

\* An AllocateKeys that also stores a record under the key it allocates.
memDsAllocateKeysStores(S, parent, n) ==
    LET m == Len(parent.path)
        k == [parent EXCEPT !.path[m].id = IntID(S.last + n)]
        S1 == [S EXCEPT !.last = S.last + n]
        a == FreeAddr(S1.paths)
    IN  [S |-> IF n = 0 THEN S1
               ELSE [S1 EXCEPT !.kes = Append(@, [ns |-> k.ns, ref |-> a, entity |-> ZeroEntity]),
                               !.paths[a] = k.path],
         err |-> "nil",
         rkeys |-> [i \in 1 .. n |-> k]]

\* memDs.AllocateKeys: every returned key is a copy of parent and shares
\* parent's path array, so each id written overwrites the one before.
memDsAllocateKeys(S, parent, n) ==
    LET m == Len(parent.path)
        k == [parent EXCEPT !.path[m].id = IntID(S.last + n)]
    IN  [S |-> [S EXCEPT !.last = S.last + n],
         err |-> "nil",
         rkeys |-> [i \in 1 .. n |-> k]]

(***************************************************************************)
(* Queries and iterators                                                   *)
(***************************************************************************)

\* A property value or filter value with its Go type: "int64", "time",
\* "bool", "string", "float64", "key", or "int" (a Go int, which is not a
\* datastore type).  v is the value as a number (for a key, the key).
Val(t, v) == [t |-> t, v |-> v]

\* ds.Filter
Filter(name, op, value) == [name |-> name, op |-> op, value |-> value]

\* ds.Order; the directions are ds.AscDir and ds.DescDir.
Order(name, dir) == [name |-> name, dir |-> dir]

AscDir == ""

DescDir == "-"

\* ds.Query
Query(root, keysOnly) == [root |-> root, keysOnly |-> keysOnly, filters |-> <<>>, orders |-> <<>>]

WithFilters(q, filters) == [q EXCEPT !.filters = filters]

WithOrders(q, orders) == [q EXCEPT !.orders = orders]

\* An entity of a struct type other than the one of Entity: the name of
\* its Go type and its exported fields, each a value with its Go type.  A
\* field of type []int64 has the type "slice" and a sequence of values.
Struct(ty, fields) == [ty |-> ty, fields |-> fields]

\* The exported fields of a stored entity, by Go field name (reflection
\* on the struct value).
FieldsOf(entity) ==
    IF "ty" \in DOMAIN entity THEN entity.fields
    ELSE [Value |-> Val("int64", entity.Value)]

\* A comparison that puts the key with fewer ancestors first.
RECURSIVE compareKeysShallowFirst(_, _)
compareKeysShallowFirst(left, right) ==
    LET ll == Len(left.path)
        rl == Len(right.path)
        leftID == left.path[ll].id
        rightID == right.path[rl].id
        rank(id) == IF id.t = "int" THEN 2 ELSE 1
        comp == rank(rightID) - rank(leftID)
    IN  IF ll > rl THEN 1
        ELSE IF ll < rl THEN -1
        ELSE IF leftID.t = "nil" \/ rightID.t = "nil" THEN 2
        ELSE IF comp < 0 THEN -1
        ELSE IF comp > 0 THEN 1
        ELSE IF leftID.v < rightID.v THEN -1
        ELSE IF leftID.v > rightID.v THEN 1
        ELSE IF ll > 1
             THEN compareKeysShallowFirst([left EXCEPT !.path = SubSeq(@, 1, ll - 1)],
                                          [right EXCEPT !.path = SubSeq(@, 1, rl - 1)])
        ELSE 0

\* compareKeys: -1, 0 or 1, or 2 for the panic on an id that is neither
\* an int64 nor a string.
RECURSIVE compareKeys(_, _)
compareKeys(left, right) ==
    LET ll == Len(left.path)
        rl == Len(right.path)
        leftID == left.path[ll].id
        rightID == right.path[rl].id
        rank(id) == IF id.t = "int" THEN 2 ELSE 1
        comp == rank(rightID) - rank(leftID)
    IN  IF ll > rl THEN -1
        ELSE IF ll < rl THEN 1
        ELSE IF leftID.t = "nil" \/ rightID.t = "nil" THEN 2
        ELSE IF comp < 0 THEN -1
        ELSE IF comp > 0 THEN 1
        ELSE IF leftID.v < rightID.v THEN -1
        ELSE IF leftID.v > rightID.v THEN 1
        ELSE IF ll > 1
             THEN compareKeys([left EXCEPT !.path = SubSeq(@, 1, ll - 1)],
                              [right EXCEPT !.path = SubSeq(@, 1, rl - 1)])
        ELSE 0

\* A ranking that puts the two numeric types next to each other.
TypeRankNumbersFirst(t) ==
    CASE t = "int64" -> 6
      [] t = "float64" -> 5
      [] t = "time" -> 4
      [] t = "bool" -> 3
      [] t = "string" -> 2
      [] t = "key" -> 1
      [] OTHER -> 0

\* The place of a type in the order in which compareValues ranks types;
\* 0 for a type it does not know.
TypeRank(t) ==
    CASE t = "int64" -> 6
      [] t = "time" -> 5
      [] t = "bool" -> 4
      [] t = "string" -> 3
      [] t = "float64" -> 2
      [] t = "key" -> 1
      [] OTHER -> 0

\* compareValues: -1, 0 or 1, or 2 for the panic "unknown property type".
compareValues(left, right) ==
    LET comp == TypeRank(right.t) - TypeRank(left.t)
    IN  IF TypeRank(left.t) = 0 \/ TypeRank(right.t) = 0 THEN 2
        ELSE IF comp < 0 THEN -1
        ELSE IF comp > 0 THEN 1
        ELSE IF left.t = "key" THEN compareKeys(left.v, right.v)
        ELSE IF left.v < right.v THEN -1
        ELSE IF left.v > right.v THEN 1
        ELSE 0

\* isComparisonTrue: "true", "false" or "panic" (from compareValues, or
\* "unknown filter op").
isComparisonTrue(left, op, right) ==
    LET comp == compareValues(left, right)
    IN  IF comp = 2 THEN "panic"
        ELSE CASE op = "<" -> IF comp < 0 THEN "true" ELSE "false"
               [] op = "<=" -> IF comp <= 0 THEN "true" ELSE "false"
               [] op = "=" -> IF comp = 0 THEN "true" ELSE "false"
               [] op = ">=" -> IF comp >= 0 THEN "true" ELSE "false"
               [] op = ">" -> IF comp > 0 THEN "true" ELSE "false"
               [] OTHER -> "panic"

\* validateFilterValue
validateFilterValue(value) ==
    IF value.t \in {"int", "int64", "float64", "string"} THEN "nil" ELSE "filter"

\* findFieldName: the struct types of the model carry no tags, so a name
\* is found exactly when it is a field name.
findFieldName(entity, name) == IF name \in DOMAIN FieldsOf(entity) THEN name ELSE ""

\* isIndexableSlice
isIndexableSlice(propValue) == propValue.t = "slice"

\* The same loop asking every element to satisfy the comparison.
RECURSIVE everyElement(_, _, _, _)
everyElement(elems, j, op, value) ==
    IF j > Len(elems) THEN "true"
    ELSE LET c == isComparisonTrue(elems[j], op, value)
         IN  IF c = "true" THEN everyElement(elems, j + 1, op, value) ELSE c

\* The loop of memDs.Run over the elements of a slice property: "true" as
\* soon as an element satisfies the comparison, "false" if none does,
\* "panic" if a comparison panics first.
RECURSIVE anyElement(_, _, _, _)
anyElement(elems, j, op, value) ==
    IF j > Len(elems) THEN "false"
    ELSE LET c == isComparisonTrue(elems[j], op, value)
         IN  IF c = "false" THEN anyElement(elems, j + 1, op, value) ELSE c

\* isAncestor(parent, child) on a stored record: child is a copy of the
\* record's key, so the nil written into child.Path lands in the record's
\* own path array.
isAncestor(hp, parent, ke) ==
    LET n == Len(parent.path)
    IN  IF n > Len(hp[ke.ref]) THEN [paths |-> hp, ok |-> FALSE]
        ELSE LET hp1 == [hp EXCEPT ![ke.ref][n].id = NilID]
                 child == [ns |-> ke.ns, path |-> SubSeq(hp1[ke.ref], 1, n)]
             IN  [paths |-> hp1, ok |-> Equal(parent, child) = "true"]

\* A filter loop that removes a record which lacks the field of a filter.
RECURSIVE applyFiltersRemoves(_, _, _, _, _)
applyFiltersRemoves(hp, ke, filters, j, remove) ==
    IF j > Len(filters) THEN [err |-> "nil", remove |-> remove]
    ELSE LET f == filters[j]
         IN  IF validateFilterValue(f.value) # "nil" THEN [err |-> "filter", remove |-> remove]
             ELSE IF f.name # "__key__" /\ findFieldName(ke.entity, f.name) = ""
             THEN applyFiltersRemoves(hp, ke, filters, j + 1, TRUE)
             ELSE LET propValue == IF f.name = "__key__" THEN Val("key", KeyOf(hp, ke))
                                   ELSE FieldsOf(ke.entity)[findFieldName(ke.entity, f.name)]
                      c == IF isIndexableSlice(propValue)
                           THEN anyElement(propValue.v, 1, f.op, f.value)
                           ELSE isComparisonTrue(propValue, f.op, f.value)
                  IN  IF c = "panic" THEN [err |-> "panic", remove |-> remove]
                      ELSE applyFiltersRemoves(hp, ke, filters, j + 1, remove \/ c = "false")

\* The filter loop of memDs.Run on one record: whether the record is to be
\* removed, or the error or panic that ends the Run.
RECURSIVE applyFilters(_, _, _, _, _)
applyFilters(hp, ke, filters, j, remove) ==
    IF j > Len(filters) THEN [err |-> "nil", remove |-> remove]
    ELSE LET f == filters[j]
         IN  IF validateFilterValue(f.value) # "nil" THEN [err |-> "filter", remove |-> remove]
             ELSE IF f.name # "__key__" /\ findFieldName(ke.entity, f.name) = ""
             THEN applyFilters(hp, ke, filters, j + 1, remove)
             ELSE LET propValue == IF f.name = "__key__" THEN Val("key", KeyOf(hp, ke))
                                   ELSE FieldsOf(ke.entity)[findFieldName(ke.entity, f.name)]
                      c == IF isIndexableSlice(propValue)
                           THEN anyElement(propValue.v, 1, f.op, f.value)
                           ELSE isComparisonTrue(propValue, f.op, f.value)
                  IN  IF c = "panic" THEN [err |-> "panic", remove |-> remove]
                      ELSE applyFilters(hp, ke, filters, j + 1, remove \/ c = "false")

\* The first loop of memDs.Run: the indexes to remove, the heap as the
\* ancestor tests leave it, and the error or panic that ended the loop.
RECURSIVE scan(_, _, _, _, _)
scan(kes, hp, q, i, rm) ==
    IF i > Len(kes) THEN [paths |-> hp, rm |-> rm, err |-> "nil"]
    ELSE LET ke == kes[i]
             rm1 == IF q.root.ns # ke.ns THEN rm \cup {i} ELSE rm
             rootKind == q.root.path[Len(q.root.path)].kind
             keyKind == hp[ke.ref][Len(hp[ke.ref])].kind
         IN  IF rootKind = "" THEN scan(kes, hp, q, i + 1, rm1)
             ELSE LET rm2 == IF keyKind # rootKind THEN rm1 \cup {i} ELSE rm1
                      anc == isAncestor(hp, q.root, ke)
                      rm3 == IF anc.ok THEN rm2 ELSE rm2 \cup {i}
                      fl == applyFilters(anc.paths, ke, q.filters, 1, FALSE)
                  IN  IF fl.err # "nil" THEN [paths |-> anc.paths, rm |-> rm3, err |-> fl.err]
                      ELSE scan(kes, anc.paths, q, i + 1, IF fl.remove THEN rm3 \cup {i} ELSE rm3)

\* The second loop of memDs.Run: the records that were not removed.
RECURSIVE keep(_, _, _)
keep(kes, rm, i) ==
    IF i > Len(kes) THEN <<>>
    ELSE IF i \in rm THEN keep(kes, rm, i + 1)
    ELSE <<kes[i]>> \o keep(kes, rm, i + 1)

\* The outcome of a comparison under a direction, as keyEntitySorter.Less
\* returns it: "next" when the values are equal and the next order decides.
Directed(comp, dir) ==
    IF comp = 2 THEN "panic"
    ELSE IF comp < 0 THEN (IF dir = AscDir THEN "true" ELSE "false")
    ELSE IF comp > 0 THEN (IF dir = DescDir THEN "true" ELSE "false")
    ELSE "next"

\* A comparison that goes on to the next clause when both records lack the
\* property of a clause.
RECURSIVE LessFromNextClause(_, _, _, _, _)
LessFromNextClause(hp, lke, rke, orders, n) ==
    IF n > Len(orders) THEN "false"
    ELSE LET o == orders[n]
             hasLeftField == o.name \in DOMAIN FieldsOf(lke.entity)
             hasRightField == o.name \in DOMAIN FieldsOf(rke.entity)
             d == IF o.name = "__key__"
                  THEN Directed(compareKeys(KeyOf(hp, lke), KeyOf(hp, rke)), o.dir)
                  ELSE IF ~hasLeftField /\ ~hasRightField THEN "next"
                  ELSE IF ~hasLeftField THEN "true"
                  ELSE IF ~hasRightField THEN "false"
                  ELSE Directed(compareValues(FieldsOf(lke.entity)[o.name],
                                              FieldsOf(rke.entity)[o.name]), o.dir)
         IN  IF d = "next" THEN LessFromNextClause(hp, lke, rke, orders, n + 1) ELSE d

\* keyEntitySorter.Less from order n on: "true", "false" or "panic".
RECURSIVE LessFrom(_, _, _, _, _)
LessFrom(hp, lke, rke, orders, n) ==
    IF n > Len(orders) THEN "false"
    ELSE LET o == orders[n]
             hasLeftField == o.name \in DOMAIN FieldsOf(lke.entity)
             hasRightField == o.name \in DOMAIN FieldsOf(rke.entity)
             d == IF o.name = "__key__"
                  THEN Directed(compareKeys(KeyOf(hp, lke), KeyOf(hp, rke)), o.dir)
                  ELSE IF ~hasLeftField /\ ~hasRightField THEN "false"
                  ELSE IF ~hasLeftField THEN "true"
                  ELSE IF ~hasRightField THEN "false"
                  ELSE Directed(compareValues(FieldsOf(lke.entity)[o.name],
                                              FieldsOf(rke.entity)[o.name]), o.dir)
         IN  IF d = "next" THEN LessFrom(hp, lke, rke, orders, n + 1) ELSE d

\* keyEntitySorter.Less
Less(hp, lke, rke, orders) == LessFrom(hp, lke, rke, orders, 1)

\* keyEntitySorter.Swap
Swap(kes, i, j) == [kes EXCEPT ![i] = kes[j], ![j] = kes[i]]

\* The inner loop of the insertion sort: element j moves down while it is
\* less than the one before it.
RECURSIVE insertDown(_, _, _, _)
insertDown(hp, kes, orders, j) ==
    IF j <= 1 THEN [kes |-> kes, err |-> "nil"]
    ELSE LET l == Less(hp, kes[j], kes[j - 1], orders)
         IN  IF l = "panic" THEN [kes |-> kes, err |-> "panic"]
             ELSE IF l = "false" THEN [kes |-> kes, err |-> "nil"]
             ELSE insertDown(hp, Swap(kes, j, j - 1), orders, j - 1)

\* sort.Sort, which sorts the few records of the model by insertion.
RECURSIVE insertionSort(_, _, _, _)
insertionSort(hp, kes, orders, i) ==
    IF i > Len(kes) THEN [kes |-> kes, err |-> "nil"]
    ELSE LET r == insertDown(hp, kes, orders, i)
         IN  IF r.err # "nil" THEN r ELSE insertionSort(hp, r.kes, orders, i + 1)

\* No iterator has been created yet.
NoIter == [kes |-> <<>>, keysOnly |-> FALSE, index |-> 0, open |-> FALSE]

\* The end of memDs.Run: on an error no iterator is returned, otherwise one
\* over the sorted records.
runIterator(S, q, sc, sorted) ==
    [S |-> [S EXCEPT !.paths = sc.paths],
     err |-> IF sc.err # "nil" THEN sc.err ELSE sorted.err,
     it |-> IF sc.err # "nil" \/ sorted.err # "nil" THEN NoIter
            ELSE [kes |-> sorted.kes, keysOnly |-> q.keysOnly, index |-> 0, open |-> TRUE]]

\* memDs.Run after its first loop left sc: the kept records are sorted.
runSort(S, q, sc) ==
    runIterator(S, q, sc, insertionSort(sc.paths, keep(S.kes, sc.rm, 1), q.orders, 2))

\* memDs.Run
memDsRun(S, q) == runSort(S, q, scan(S.kes, S.paths, q, 1, {}))

\* The zero ds.Key that Next returns when nothing is left.
ZeroKey == NewKey("")

\* No destination passed to Next (entity == nil).
NoDest == [k |-> "nil", e |-> ZeroEntity]

\* A Next that fills the destination of a keys-only iterator as well.
iteratorNextFills(hp, it, el) ==
    IF it.index >= Len(it.kes)
    THEN IF el.k = "nil" THEN [it |-> it, err |-> "nil", key |-> ZeroKey, el |-> el]
         ELSE IF extractStruct(el) # "nil" THEN [it |-> it, err |-> "entity", key |-> ZeroKey, el |-> el]
         ELSE [it |-> it, err |-> "nil", key |-> ZeroKey, el |-> PtrTo(ZeroEntity)]
    ELSE LET ke == it.kes[it.index + 1]
             it1 == [it EXCEPT !.index = @ + 1]
         IN  IF extractStruct(el) # "nil" THEN [it |-> it1, err |-> "entity", key |-> ZeroKey, el |-> el]
             ELSE [it |-> it1, err |-> "nil", key |-> KeyOf(hp, ke), el |-> PtrTo(ke.entity)]

\* iterator.Next
iteratorNext(hp, it, el) ==
    IF it.index >= Len(it.kes)
    THEN IF el.k = "nil" THEN [it |-> it, err |-> "nil", key |-> ZeroKey, el |-> el]
         ELSE IF extractStruct(el) # "nil" THEN [it |-> it, err |-> "entity", key |-> ZeroKey, el |-> el]
         ELSE [it |-> it, err |-> "nil", key |-> ZeroKey, el |-> PtrTo(ZeroEntity)]
    ELSE LET ke == it.kes[it.index + 1]
             it1 == [it EXCEPT !.index = @ + 1]
         IN  IF it.keysOnly THEN [it |-> it1, err |-> "nil", key |-> KeyOf(hp, ke), el |-> el]
             ELSE IF extractStruct(el) # "nil" THEN [it |-> it1, err |-> "entity", key |-> ZeroKey, el |-> el]
             ELSE [it |-> it1, err |-> "nil", key |-> KeyOf(hp, ke), el |-> PtrTo(ke.entity)]

(***************************************************************************)
(* The heap of path arrays                                                 *)
(***************************************************************************)

RECURSIVE Dedup(_, _)
Dedup(s, acc) ==
    IF s = <<>> THEN acc
    ELSE IF \E j \in 1 .. Len(acc) : acc[j] = Head(s) THEN Dedup(Tail(s), acc)
    ELSE Dedup(Tail(s), Append(acc, Head(s)))

\* The addresses in use, in the order the store and then the iterator
\* refer to them.
RefOrder(kes, itkes) ==
    Dedup([i \in 1 .. Len(kes) |-> kes[i].ref] \o [i \in 1 .. Len(itkes) |-> itkes[i].ref], <<>>)

NewAddr(order, a) == CHOOSE j \in 1 .. Len(order) : order[j] = a

\* Garbage collection: arrays nothing refers to are dropped and the live
\* ones renumbered in reference order (addresses carry no meaning).
Compact(kes, itkes, hp) ==
    LET order == RefOrder(kes, itkes)
    IN  [kes |-> [i \in 1 .. Len(kes) |-> [kes[i] EXCEPT !.ref = NewAddr(order, @)]],
         itkes |-> [i \in 1 .. Len(itkes) |-> [itkes[i] EXCEPT !.ref = NewAddr(order, @)]],
         paths |-> [a \in Addrs |-> IF a <= Len(order) THEN hp[order[a]] ELSE <<>>]]

\* The state after an operation that left store S and iterator it.
Becomes(S, it, r) ==
    LET c == Compact(S.kes, it.kes, S.paths)
    IN  /\ keyEntities' = c.kes
        /\ paths' = c.paths
        /\ lastIntID' = S.last
        /\ iter' = [it EXCEPT !.kes = c.itkes]
        /\ dsSlice' = dsSlice
        /\ res' = r

Cur == Store(keyEntities, paths, lastIntID)

(***************************************************************************)
(* The inputs of the exploration                                           *)
(***************************************************************************)

kP1 == KeyAppend(NewKey(""), "P", IntID(1))

kPC == KeyAppend(kP1, "C", IntID(1))

kPn == KeyAppend(NewKey(""), "P", NilID)

kN1 == KeyAppend(NewKey("n"), "P", IntID(1))

\* Keys passed to Put: complete and incomplete ones.
PutKeys == {kP1, kPC, kPn, kN1}

\* Keys passed to Get and Delete: complete keys, the ids the store can
\* assign included.
LookupKeys == {kP1, kPC, kN1} \cup {KeyAppend(NewKey(""), "P", IntID(i)) : i \in 1 .. MaxID}

Ptrs(es) == EntitiesArg("ptrs", [i \in 1 .. Len(es) |-> PtrTo(es[i])])

Call(keys, ents) == [keys |-> keys, ents |-> ents]

\* Calls of Put: every key with every entity; calls of two pairs; a nil
\* pointer in second place; and the malformed shapes.
PutCalls ==
    {Call(<<k>>, Ptrs(<<e>>)) : k \in PutKeys, e \in Entities}
    \cup {Call(<<k1, k2>>, Ptrs(<<Entity(1), Entity(2)>>)) : k1 \in {kPn, kP1}, k2 \in {kPn, kPC}}
    \cup {Call(<<kPC, kP1>>, EntitiesArg("ptrs", <<PtrTo(Entity(2)), NilPtr>>)),
          Call(<<kPC>>, EntitiesArg("structs", <<StructVal(Entity(1))>>)),
          Call(<<kP1, kPn>>, EntitiesArg("ifaces", <<PtrTo(Entity(1)), OtherVal>>)),
          Call(<<kP1, kPn>>, Ptrs(<<Entity(2)>>)),
          Call(<<kP1>>, EntitiesArg("notslice", <<>>))}

\* Calls of Get: one key, two keys, and the destinations Get rejects.
GetCalls ==
    {Call(<<k>>, Ptrs(<<ZeroEntity>>)) : k \in LookupKeys}
    \cup {Call(<<k1, k2>>, Ptrs(<<ZeroEntity, ZeroEntity>>)) : k1 \in {kP1, kPC}, k2 \in {kP1, kPC, kN1}}
    \cup {Call(<<kP1>>, EntitiesArg("structs", <<StructVal(ZeroEntity)>>)),
          Call(<<kP1, kPC>>, EntitiesArg("ptrs", <<NilPtr, PtrTo(ZeroEntity)>>)),
          Call(<<kP1, kPC>>, Ptrs(<<ZeroEntity>>))}

\* Calls of Delete: one key or two.
DeleteCalls ==
    {<<k>> : k \in LookupKeys} \cup {<<kP1, kPC>>, <<kPC, kN1>>}

\* Query roots: a kind, a kind under an ancestor, a complete key, no kind.
Roots == {kPn, KeyAppend(kP1, "C", NilID), kP1, KeyAppend(NewKey(""), "", NilID)}

Queries == {Query(r, ko) : r \in Roots, ko \in BOOLEAN}

NextDests == {NoDest, PtrTo(ZeroEntity), StructVal(ZeroEntity)}

NoArg == EntitiesArg("ptrs", <<>>)

\* The number of ids that completing keys draws.
Draws(keys) == Cardinality({i \in 1 .. Len(keys) : IsIncomplete(keys[i])})

Running == res.err # "panic"

\* The context before the first AddDs: it carries no slice of datastores.
NoDsSlice == [exists |-> FALSE, list |-> <<>>]

(***************************************************************************)
(* Operations on the store                                                 *)
(***************************************************************************)

Init ==
    /\ keyEntities = <<>>
    /\ paths = [a \in Addrs |-> <<>>]
    /\ lastIntID = 0
    /\ iter = NoIter
    /\ tx = "idle"
    /\ mutators = <<>>
    /\ dsSlice = NoDsSlice
    /\ res = NoResult

Get(keys, ents) ==
    /\ Running /\ tx = "idle"
    /\ \E r \in {memDsGet(Cur, keys, ents)} :
           Becomes(Cur, iter, Result("Get", keys, ents, r.err, <<>>, r.out))
    /\ UNCHANGED <<tx, mutators>>

Put(keys, ents) ==
    /\ Running /\ tx = "idle"
    /\ Len(keyEntities) + Len(keys) <= MaxRecords
    /\ lastIntID + Draws(keys) <= MaxID
    /\ \E r \in {memDsPut(Cur, keys, ents)} :
           Becomes(r.S, iter, Result("Put", keys, ents, r.err, r.rkeys, <<>>))
    /\ UNCHANGED <<tx, mutators>>

Delete(keys) ==
    /\ Running /\ tx = "idle"
    /\ \E r \in {memDsDelete(Cur, keys)} :
           Becomes(r.S, iter, Result("Delete", keys, NoArg, r.err, <<>>, <<>>))
    /\ UNCHANGED <<tx, mutators>>

AllocateKeys(parent, n) ==
    /\ Running /\ tx = "idle"
    /\ lastIntID + n <= MaxID
    /\ \E r \in {memDsAllocateKeys(Cur, parent, n)} :
           Becomes(r.S, iter, Result("AllocateKeys", <<parent>>, NoArg, r.err, r.rkeys, <<>>))
    /\ UNCHANGED <<tx, mutators>>

Run(q, track) ==
    /\ Running /\ tx = "idle"
    /\ \E r \in {memDsRun(Cur, q)} :
           Becomes(r.S, IF track /\ r.err = "nil" THEN r.it ELSE iter,
                   [Result("Run", <<q.root>>, NoArg, r.err,
                           [i \in 1 .. Len(r.it.kes) |-> KeyOf(r.S.paths, r.it.kes[i])],
                           [i \in 1 .. Len(r.it.kes) |-> [st |-> "yield", e |-> r.it.kes[i].entity]])
                       EXCEPT !.q = q.filters, !.orders = q.orders])
    /\ UNCHANGED <<tx, mutators>>

Next(el) ==
    /\ Running /\ tx = "idle"
    /\ iter.open
    /\ \E r \in {iteratorNext(paths, iter, el)} :
           Becomes(Cur, r.it, Result("Next", <<>>, EntitiesArg("ptrs", <<el>>), r.err, <<r.key>>,
                                    <<[st |-> "dest", e |-> r.el.e]>>))
    /\ UNCHANGED <<tx, mutators>>

StoreNext ==
    \/ \E c \in GetCalls : Get(c.keys, c.ents)
    \/ \E c \in PutCalls : Put(c.keys, c.ents)
    \/ \E keys \in DeleteCalls : Delete(keys)
    \/ \E parent \in {kPn, kPC}, n \in 0 .. 2 : AllocateKeys(parent, n)
    \/ \E q \in Queries, track \in {FALSE} : Run(q, track)

StoreSpec == Init /\ [][StoreNext]_vars

(***************************************************************************)
(* Transactions: memDs.RunInTransaction and the txDs view                  *)
(***************************************************************************)

\* A queued mutator: the closure txDs.Put or txDs.Delete appended, with the
\* keys and entities it captured.  given records the keys as the caller
\* passed them (before completion); the closure does not use them.
Mutator(op, keys, ents, given) == [op |-> op, keys |-> keys, ents |-> ents, given |-> given]

\* A completion that looks at the next id and leaves the counter alone.
RECURSIVE completeKeysPeek(_, _, _, _)
completeKeysPeek(keys, last, i, acc) ==
    IF i > Len(keys) THEN [last |-> last, keys |-> acc]
    ELSE IF IsIncomplete(keys[i])
    THEN completeKeysPeek(keys, last, i + 1,
                          Append(acc, [keys[i] EXCEPT !.path[Len(keys[i].path)].id = IntID(last + 1)]))
    ELSE completeKeysPeek(keys, last, i + 1, Append(acc, keys[i]))

\* The loop of txDs.Put: completes the incomplete keys from the counter.
RECURSIVE completeKeys(_, _, _, _)
completeKeys(keys, last, i, acc) ==
    IF i > Len(keys) THEN [last |-> last, keys |-> acc]
    ELSE IF IsIncomplete(keys[i])
    THEN completeKeys(keys, last + 1, i + 1,
                      Append(acc, [keys[i] EXCEPT !.path[Len(keys[i].path)].id = IntID(last + 1)]))
    ELSE completeKeys(keys, last, i + 1, Append(acc, keys[i]))

\* The commit loop of memDs.RunInTransaction: the mutators run in queue
\* order against the store and the first error ends the loop.
RECURSIVE replay(_, _, _)
replay(S, muts, i) ==
    IF i > Len(muts) THEN [S |-> S, err |-> "nil"]
    ELSE LET m == muts[i]
             r == IF m.op = "Put" THEN memDsPut(S, m.keys, m.ents) ELSE memDsDelete(S, m.keys)
         IN  IF r.err # "nil" THEN [S |-> r.S, err |-> r.err]
             ELSE replay(r.S, muts, i + 1)

\* A RunInTransaction that replays the queue whatever the body returned.
runInTransactionAlways(S, muts, err) ==
    [S |-> replay(S, muts, 1).S, err |-> err]

\* memDs.RunInTransaction after the body: an error of the body is returned
\* as it is and the queue is dropped, otherwise the queue is replayed.
runInTransaction(S, muts, err) ==
    IF err # "nil" THEN [S |-> S, err |-> err] ELSE replay(S, muts, 1)

\* The number of keys the queued Puts hold.
RECURSIVE QueuedPuts(_)
QueuedPuts(muts) ==
    IF muts = <<>> THEN 0
    ELSE (IF Head(muts).op = "Put" THEN Len(Head(muts).keys) ELSE 0) + QueuedPuts(Tail(muts))

\* memDs.RunInTransaction up to the call of the body f.
RunInTransaction ==
    /\ Running /\ tx = "idle"
    /\ tx' = "active"
    /\ mutators' = <<>>
    /\ res' = Result("enter", <<>>, NoArg, "nil", <<>>, <<>>)
    /\ UNCHANGED <<keyEntities, paths, lastIntID, iter, dsSlice>>

txDsGet(keys, ents) ==
    /\ Running /\ tx = "active"
    /\ \E r \in {memDsGet(Cur, keys, ents)} :
           Becomes(Cur, iter, Result("txGet", keys, ents, r.err, <<>>, r.out))
    /\ UNCHANGED <<tx, mutators>>

\* A txDs.Put that also writes through to the store.
txDsPutThrough(keys, ents) ==
    /\ Running /\ tx = "active"
    /\ Len(mutators) < MaxMut
    /\ Len(keyEntities) + QueuedPuts(mutators) + Len(keys) <= MaxRecords
    /\ lastIntID + Draws(keys) <= MaxID
    /\ LET c == completeKeys(keys, lastIntID, 1, <<>>)
           r == memDsPut([Cur EXCEPT !.last = c.last], c.keys, ents)
       IN  /\ Becomes(r.S, iter, Result("txPut", keys, ents, "nil", c.keys, <<>>))
           /\ mutators' = Append(mutators, Mutator("Put", c.keys, ents, keys))
    /\ UNCHANGED tx

\* txDs.Put: completes the keys and queues the Put.
txDsPut(keys, ents) ==
    /\ Running /\ tx = "active"
    /\ Len(mutators) < MaxMut
    /\ Len(keyEntities) + QueuedPuts(mutators) + Len(keys) <= MaxRecords
    /\ lastIntID + Draws(keys) <= MaxID
    /\ LET c == completeKeys(keys, lastIntID, 1, <<>>)
       IN  /\ Becomes([Cur EXCEPT !.last = c.last], iter,
                      Result("txPut", keys, ents, "nil", c.keys, <<>>))
           /\ mutators' = Append(mutators, Mutator("Put", c.keys, ents, keys))
    /\ UNCHANGED tx

txDsDelete(keys) ==
    /\ Running /\ tx = "active"
    /\ Len(mutators) < MaxMut
    /\ Becomes(Cur, iter, Result("txDelete", keys, NoArg, "nil", <<>>, <<>>))
    /\ mutators' = Append(mutators, Mutator("Delete", keys, NoArg, keys))
    /\ UNCHANGED tx

txDsAllocateKeys(parent, n) ==
    /\ Running /\ tx = "active"
    /\ lastIntID + n <= MaxID
    /\ \E r \in {memDsAllocateKeys(Cur, parent, n)} :
           Becomes(r.S, iter, Result("txAllocateKeys", <<parent>>, NoArg, r.err, r.rkeys, <<>>))
    /\ UNCHANGED <<tx, mutators>>

\* A txDs.Run that hands the query to the live store, as txDs.Get does.
txDsRunDelegates(q) ==
    /\ Running /\ tx = "active"
    /\ \E r \in {memDsRun(Cur, q)} :
           Becomes(r.S, IF r.err = "nil" THEN r.it ELSE iter,
                   Result("txRun", <<q.root>>, NoArg, r.err,
                          [i \in 1 .. Len(r.it.kes) |-> KeyOf(r.S.paths, r.it.kes[i])],
                          [i \in 1 .. Len(r.it.kes) |-> [st |-> "yield", e |-> r.it.kes[i].entity]]))
    /\ UNCHANGED <<tx, mutators>>

\* txDs.Run: always the error, and no iterator.
txDsRun(q) ==
    /\ Running /\ tx = "active"
    /\ Becomes(Cur, iter, Result("txRun", <<q.root>>, NoArg, "not implemented", <<>>, <<>>))
    /\ UNCHANGED <<tx, mutators>>

\* A txDs.RunInTransaction that opens a scope of its own.
txDsRunInTransactionNests ==
    /\ Running /\ tx = "active"
    /\ Becomes(Cur, iter, Result("txRunInTransaction", <<>>, NoArg, "nil", <<>>, <<>>))
    /\ mutators' = <<>>
    /\ UNCHANGED tx

\* txDs.RunInTransaction: always the error, f is not called.
txDsRunInTransaction ==
    /\ Running /\ tx = "active"
    /\ Becomes(Cur, iter, Result("txRunInTransaction", <<>>, NoArg, "already in transaction", <<>>, <<>>))
    /\ UNCHANGED <<tx, mutators>>

\* memDs.RunInTransaction from the return of the body f: err is what f
\* returned.
BodyReturns(err) ==
    /\ Running /\ tx = "active"
    /\ \E r \in {runInTransaction(Cur, mutators, err)} :
           Becomes(r.S, iter,
                   [Result("RunInTransaction", <<>>, NoArg, r.err, <<>>, <<>>) EXCEPT !.q = mutators])
    /\ tx' = "idle"
    /\ mutators' = <<>>

\* Calls made through the transactional view.
TxPutCalls ==
    {Call(<<kP1>>, Ptrs(<<Entity(2)>>)), Call(<<kPn>>, Ptrs(<<Entity(1)>>)),
     Call(<<kPC>>, Ptrs(<<Entity(1)>>)), Call(<<kP1>>, NoArg)}

TxKeys == {kP1, kPC, KeyAppend(NewKey(""), "P", IntID(2))}

TxGetCalls ==
    {Call(<<k>>, Ptrs(<<ZeroEntity>>)) : k \in TxKeys}
    \cup {Call(<<kP1, KeyAppend(NewKey(""), "P", IntID(2))>>, Ptrs(<<ZeroEntity, ZeroEntity>>))}

\* Direct calls made between transactions.
TxSetupCalls == {Call(<<k>>, Ptrs(<<e>>)) : k \in {kP1, kPn, kPC}, e \in Entities}

TxNext ==
    \/ \E c \in TxSetupCalls : Put(c.keys, c.ents)
    \/ \E k \in TxKeys : Delete(<<k>>)
    \/ \E k \in TxKeys : Get(<<k>>, Ptrs(<<ZeroEntity>>))
    \/ Run(Query(kPn, FALSE), FALSE)
    \/ RunInTransaction
    \/ \E c \in TxGetCalls : txDsGet(c.keys, c.ents)
    \/ \E c \in TxPutCalls : txDsPut(c.keys, c.ents)
    \/ \E k \in {kP1, kPC} : txDsDelete(<<k>>)
    \/ txDsAllocateKeys(kPn, 1)
    \/ txDsRun(Query(kPn, FALSE))
    \/ txDsRunInTransaction
    \/ \E err \in {"nil", "user"} : BodyReturns(err)

TxSpec == Init /\ [][TxNext]_vars

(***************************************************************************)
(* Id allocation next to Put, Delete and Run                               *)
(***************************************************************************)

AllocNext ==
    \/ \E c \in TxSetupCalls : Put(c.keys, c.ents)
    \/ \E k \in TxKeys : Delete(<<k>>)
    \/ \E parent \in {kPn, kPC}, n \in 0 .. 2 : AllocateKeys(parent, n)
    \/ Run(Query(kPn, FALSE), FALSE)

AllocSpec == Init /\ [][AllocNext]_vars

(***************************************************************************)
(* Queries over records of several parents, kinds and namespaces           *)
(***************************************************************************)

\* The keys of TestAncestorQuery, a record of another kind and one of
\* another namespace.
qA1 == KeyAppend(kP1, "C", IntID(1))

qA2 == KeyAppend(kP1, "C", IntID(2))

qB1 == KeyAppend(KeyAppend(NewKey(""), "P", IntID(2)), "C", IntID(1))

qD1 == KeyAppend(kP1, "D", IntID(1))

qR4 == KeyAppend(NewKey(""), "C", IntID(4))

qN1 == KeyAppend(kN1, "C", IntID(1))

QueryPutCalls ==
    {Call(<<qA1>>, Ptrs(<<e>>)) : e \in Entities}
    \cup {Call(<<qA2>>, Ptrs(<<Entity(2)>>))}
    \cup {Call(<<k>>, Ptrs(<<Entity(1)>>)) : k \in {qB1, qD1, qR4, qN1}}

\* Query roots: the kind C below P/1 in either namespace, the kind C at
\* root level, and no kind.
AncestorRoot == KeyAppend(kP1, "C", NilID)

KindlessRoot == KeyAppend(NewKey(""), "", NilID)

QueryRoots ==
    {AncestorRoot, KeyAppend(kN1, "C", NilID), KeyAppend(NewKey(""), "C", NilID), KindlessRoot}

FilterOps == {"<", "<=", "=", ">=", ">"}

\* Filters on the int64 field Value.
ScalarFilters == {Filter("Value", op, Val("int64", v)) : op \in FilterOps, v \in 1 .. 2}

\* Lists of filters: one scalar filter, two, and the filters whose value
\* or name the store treats specially.
FilterLists ==
    {<<f>> : f \in ScalarFilters}
    \cup {<<Filter("Value", ">=", Val("int64", 1)), Filter("Value", "<", Val("int64", 2))>>,
          <<Filter("Value", "=", Val("int", 1))>>,
          <<Filter("Value", "=", Val("bool", 1))>>,
          <<Filter("Value", "=", Val("string", 1))>>,
          <<Filter("Missing", "=", Val("int64", 1))>>,
          <<Filter("__key__", ">", Val("int64", 1))>>}

\* The queries: every root without filters, and the filters below the
\* ancestor root and (two of them) on the root without a kind.
FilterQueries ==
    {Query(r, FALSE) : r \in QueryRoots}
    \cup {Query(AncestorRoot, TRUE)}
    \cup {WithFilters(Query(AncestorRoot, FALSE), fs) : fs \in FilterLists}
    \cup {WithFilters(Query(KindlessRoot, FALSE), <<Filter("Value", op, Val("int64", 1))>>) :
             op \in {"=", ">"}}

QueryNext ==
    \/ \E c \in QueryPutCalls : Put(c.keys, c.ents)
    \/ \E k \in {qA1, qN1} : Delete(<<k>>)
    \/ \E k \in {qA1, qN1} : Get(<<k>>, Ptrs(<<ZeroEntity>>))
    \/ \E q \in FilterQueries : Run(q, FALSE)

QuerySpec == Init /\ [][QueryNext]_vars

(***************************************************************************)
(* Records of one path in two namespaces                                   *)
(***************************************************************************)

qN4 == KeyAppend(NewKey("n"), "C", IntID(4))

\* The same two paths in either namespace, with different fields.
NamespacePutCalls ==
    {Call(<<k>>, Ptrs(<<Entity(1)>>)) : k \in {qA1, qR4}}
    \cup {Call(<<k>>, Ptrs(<<Entity(2)>>)) : k \in {qN1, qN4}}

\* Every kind of root in either namespace; filters below the ancestor
\* root and on the root without a kind.
NamespaceQueries ==
    {Query(r, FALSE) : r \in QueryRoots}
    \cup {Query(KeyAppend(NewKey("n"), "", NilID), FALSE), Query(KeyAppend(NewKey("n"), "C", NilID), FALSE)}
    \cup {WithFilters(Query(r, FALSE), <<Filter("Value", "=", Val("int64", v))>>) :
             r \in {AncestorRoot, KindlessRoot}, v \in 1 .. 2}

NamespaceNext ==
    \/ \E c \in NamespacePutCalls : Put(c.keys, c.ents)
    \/ \E k \in {qA1, qN1, qN4} : Delete(<<k>>)
    \/ \E k \in {qA1, qN1, qR4} : Get(<<k>>, Ptrs(<<ZeroEntity>>))
    \/ \E q \in NamespaceQueries : Run(q, FALSE)

NamespaceSpec == Init /\ [][NamespaceNext]_vars

(***************************************************************************)
(* Filters on a slice property                                             *)
(***************************************************************************)

\* The values a filter compares with.
FilterValues == 1 .. 3

\* The lists a slice property holds: empty, one element, and two elements
\* in either order.
SliceLists == {<<>>, <<1>>, <<3>>, <<1, 3>>, <<3, 1>>}

\* testEntity{IntValues []int64} of TestSliceProperties.
SliceEntity(vs) ==
    Struct("sliceEntity", [IntValues |-> Val("slice", [j \in 1 .. Len(vs) |-> Val("int64", vs[j])])])

SliceEntities == {SliceEntity(vs) : vs \in SliceLists}

sK1 == KeyAppend(NewKey(""), "Kind", IntID(1))

sK2 == KeyAppend(NewKey(""), "Kind", IntID(2))

KindRoot == KeyAppend(NewKey(""), "Kind", NilID)

\* Records with a slice property, and one of the same kind without it.
SlicePutCalls ==
    {Call(<<k>>, Ptrs(<<e>>)) : k \in {sK1, sK2}, e \in SliceEntities}
    \cup {Call(<<sK2>>, Ptrs(<<Entity(2)>>))}

ListFilters == {Filter("IntValues", op, Val("int64", v)) : op \in FilterOps, v \in FilterValues}

\* One filter on the slice property, or two.
SliceQueries ==
    {WithFilters(Query(KindRoot, FALSE), <<f>>) : f \in ListFilters}
    \cup {WithFilters(Query(KindRoot, FALSE), <<f, g>>) :
             f \in {Filter("IntValues", ">", Val("int64", 1)), Filter("IntValues", ">=", Val("int64", 3))},
             g \in {Filter("IntValues", "<", Val("int64", 3)), Filter("IntValues", "=", Val("int64", 1))}}

SliceNext ==
    \/ \E c \in SlicePutCalls : Put(c.keys, c.ents)
    \/ \E q \in SliceQueries : Run(q, FALSE)

SliceSpec == Init /\ [][SliceNext]_vars

(***************************************************************************)
(* Filters whose value is a key                                            *)
(***************************************************************************)

\* testEntity{IntValue int64; KeyValue ds.Key} of TestKeyField.
KeyFieldEntity(n, k) == Struct("keyFieldEntity", [IntValue |-> Val("int64", n), KeyValue |-> Val("key", k)])

\* The keys held in the field KeyValue.
kV1 == KeyAppend(NewKey("ns"), "Value", StrID(1))

kV2 == KeyAppend(NewKey("ns"), "Value", StrID(2))

\* The keys of the records.
kT1 == KeyAppend(NewKey("ns"), "Test", IntID(1))

kT2 == KeyAppend(NewKey("ns"), "Test", IntID(2))

TestRoot == KeyAppend(NewKey("ns"), "Test", NilID)

KeyFieldPutCalls ==
    {Call(<<k>>, Ptrs(<<KeyFieldEntity(n, v)>>)) : k \in {kT1, kT2}, n \in 1 .. 2, v \in {kV1, kV2}}

\* Equality with a key, on the key-valued property and on the record's key.
KeyFilters ==
    {Filter("KeyValue", "=", Val("key", v)) : v \in {kV1, kV2}}
    \cup {Filter("__key__", "=", Val("key", k)) : k \in {kT1, kT2}}

KeyFieldQueries ==
    {Query(TestRoot, ko) : ko \in BOOLEAN}
    \cup {WithFilters(Query(TestRoot, FALSE), <<f>>) : f \in KeyFilters}

KeyFieldNext ==
    \/ \E c \in KeyFieldPutCalls : Put(c.keys, c.ents)
    \/ \E k \in {kT1, kT2} : Delete(<<k>>)
    \/ \E q \in KeyFieldQueries : Run(q, FALSE)

KeyFieldSpec == Init /\ [][KeyFieldNext]_vars

(***************************************************************************)
(* Orders on properties and on the key                                     *)
(***************************************************************************)

\* An entity with two int64 properties, for orders of two clauses.
PairEntity(a, b) == Struct("pairEntity", [Value |-> Val("int64", a), Other |-> Val("int64", b)])

PairEntities == {PairEntity(a, b) : a, b \in 1 .. 2}

\* The keys of TestQueryOrder (string ids) and TestIntIDKeyOrder (int64 ids).
oS1 == KeyAppend(NewKey(""), "Test", StrID(1))

oS2 == KeyAppend(NewKey(""), "Test", StrID(2))

oI1 == KeyAppend(NewKey(""), "Test", IntID(1))

OrderRoot == KeyAppend(NewKey(""), "Test", NilID)

OrderPutCalls == {Call(<<k>>, Ptrs(<<e>>)) : k \in {oS1, oS2, oI1}, e \in PairEntities}

Dirs == {AscDir, DescDir}

\* Orders on properties only: one clause, or two.
PropertyOrders ==
    {<<Order("Value", d)>> : d \in Dirs}
    \cup {<<Order("Value", d1), Order("Other", d2)>> : d1, d2 \in Dirs}

\* Orders with a clause on the key.
KeyOrders ==
    {<<Order("__key__", d)>> : d \in Dirs}
    \cup {<<Order("Value", AscDir), Order("__key__", d)>> : d \in Dirs}

OrderQueries ==
    {WithOrders(Query(r, ko), os) : r \in {OrderRoot, KindlessRoot}, ko \in BOOLEAN,
                                    os \in PropertyOrders \cup KeyOrders}

OrderNext ==
    \/ \E c \in OrderPutCalls : Put(c.keys, c.ents)
    \/ \E q \in OrderQueries : Run(q, FALSE)

OrderSpec == Init /\ [][OrderNext]_vars

(***************************************************************************)
(* Orders on a property that holds values of different types               *)
(***************************************************************************)

\* testString, testInt, testFloat, testKey, testTime and testBool of
\* TestComplexValueSortOrder: one field Value, of the type t.
TypedEntity(t, v) == Struct(t, [Value |-> Val(t, v)])

\* One entity of each type, and both booleans; the numbers are chosen so
\* that their order is not the order of the types.
TypedEntities ==
    {TypedEntity("string", 1), TypedEntity("int64", 23), TypedEntity("float64", 2),
     TypedEntity("key", kV1), TypedEntity("time", 5), TypedEntity("bool", 1), TypedEntity("bool", 0)}

\* The key under which TestComplexValueSortOrder stores an entity.
TypedKey(e) ==
    KeyAppend(NewKey(""), "Entity",
              StrID(CASE e.ty = "string" -> 1 [] e.ty = "int64" -> 2 [] e.ty = "float64" -> 3
                      [] e.ty = "key" -> 4 [] e.ty = "time" -> 5 [] OTHER -> 6 + e.fields.Value.v))

EntityRoot == KeyAppend(NewKey(""), "Entity", NilID)

TypedPutCalls == {Call(<<TypedKey(e)>>, Ptrs(<<e>>)) : e \in TypedEntities}

\* Keys-only queries ordered on Value, ascending and descending.
TypedQueries ==
    {WithOrders(Query(r, TRUE), <<Order("Value", d)>>) : r \in {EntityRoot, KindlessRoot}, d \in Dirs}

TypedNext ==
    \/ \E c \in TypedPutCalls : Put(c.keys, c.ents)
    \/ \E q \in TypedQueries : Run(q, FALSE)

TypedSpec == Init /\ [][TypedNext]_vars

(***************************************************************************)
(* An iterator and the calls of Next on it                                 *)
(***************************************************************************)

IterPutCalls == {Call(<<k>>, Ptrs(<<e>>)) : k \in {kP1, kPn}, e \in Entities}

\* Queries of the kind P and of every kind, with and without keys only,
\* and one with an order.
IterQueries ==
    {Query(r, ko) : r \in {kPn, KindlessRoot}, ko \in BOOLEAN}
    \cup {WithOrders(Query(KindlessRoot, FALSE), <<Order("Value", DescDir)>>)}

\* The destinations passed to Next: none, a pointer to a struct that holds
\* fields already, and a struct passed by value.
IterDests == {NoDest, PtrTo(Entity(1)), StructVal(ZeroEntity)}

IterNext ==
    \/ \E c \in IterPutCalls : Put(c.keys, c.ents)
    \/ Delete(<<kP1>>)
    \/ \E q \in IterQueries : Run(q, TRUE)
    \/ \E el \in IterDests : Next(el)

IterSpec == Init /\ [][IterNext]_vars

(***************************************************************************)
(* An iterator while the store is used further                             *)
(***************************************************************************)

\* The iterator that is held is that of a Run rooted at no kind; the Runs
\* of the kind P are issued while it is held and their iterators dropped.
SnapshotNext ==
    \/ \E c \in IterPutCalls : Put(c.keys, c.ents)
    \/ Delete(<<kP1>>)
    \/ \E ko \in BOOLEAN : Run(Query(KindlessRoot, ko), TRUE)
    \/ \E ko \in BOOLEAN : Run(Query(kPn, ko), FALSE)
    \/ \E el \in IterDests : Next(el)

SnapshotSpec == Init /\ [][SnapshotNext]_vars

(***************************************************************************)
(* The id counter under Put, AllocateKeys and transactions                 *)
(***************************************************************************)

\* Calls of Put that draw no id, one id and two ids.
CounterPutCalls ==
    {Call(<<kP1>>, Ptrs(<<Entity(1)>>)), Call(<<kPn>>, Ptrs(<<Entity(1)>>)),
     Call(<<kPn, kPn>>, Ptrs(<<Entity(1), Entity(2)>>))}

CounterNext ==
    \/ \E c \in CounterPutCalls : Put(c.keys, c.ents)
    \/ \E n \in 0 .. 2 : AllocateKeys(kPn, n)
    \/ RunInTransaction
    \/ \E c \in CounterPutCalls : txDsPut(c.keys, c.ents)
    \/ txDsAllocateKeys(kPn, 1)
    \/ \E err \in {"nil", "user"} : BodyReturns(err)

CounterSpec == Init /\ [][CounterNext]_vars

(***************************************************************************)
(* Queries rooted at a complete key                                        *)
(***************************************************************************)

\* A record below the complete key qA1, of the leaf kind of qA1.
qA1C == KeyAppend(qA1, "C", IntID(1))

CompleteRootPutCalls == {Call(<<k>>, Ptrs(<<Entity(1)>>)) : k \in {qA1, qA2, qA1C, kP1}}

\* The complete roots, and the kind C below P/1.
CompleteRootQueries == {Query(r, FALSE) : r \in {qA1, qA2, kP1, AncestorRoot}}

CompleteRootNext ==
    \/ \E c \in CompleteRootPutCalls : Put(c.keys, c.ents)
    \/ \E k \in {qA1, kP1} : Delete(<<k>>)
    \/ \E q \in CompleteRootQueries : Run(q, FALSE)

CompleteRootSpec == Init /\ [][CompleteRootNext]_vars

(***************************************************************************)
(* Queries whose root names no kind                                        *)
(***************************************************************************)

\* Every kind below P/1.
KindlessBelowP1 == KeyAppend(kP1, "", NilID)

KindlessPutCalls ==
    {Call(<<qA1>>, Ptrs(<<e>>)) : e \in Entities}
    \cup {Call(<<k>>, Ptrs(<<Entity(1)>>)) : k \in {qB1, qD1, qN1}}

\* Roots without a kind at the top and below P/1, without filters and with
\* a filter on Value.
KindlessQueries ==
    {Query(r, FALSE) : r \in {KindlessRoot, KindlessBelowP1}}
    \cup {WithFilters(Query(r, FALSE), <<f>>) :
             r \in {KindlessRoot, KindlessBelowP1},
             f \in {Filter("Value", "=", Val("int64", 1)), Filter("Value", ">", Val("int64", 1))}}

KindlessNext ==
    \/ \E c \in KindlessPutCalls : Put(c.keys, c.ents)
    \/ \E k \in {qA1, qN1} : Delete(<<k>>)
    \/ \E q \in KindlessQueries : Run(q, FALSE)

KindlessSpec == Init /\ [][KindlessNext]_vars

(***************************************************************************)
(* Orders on a property that some records lack                             *)
(***************************************************************************)

\* Records of two struct types under one kind: Entity has the field Value
\* only, pairEntity has Value and Other.
MixedEntities == Entities \cup {PairEntity(1, 1), PairEntity(2, 2)}

MixedPutCalls == {Call(<<k>>, Ptrs(<<e>>)) : k \in {oS1, oS2, oI1}, e \in MixedEntities}

\* Orders whose first clause is on Other: that clause alone, or followed by
\* a clause on Value, which every record has.
MixedOrders ==
    {<<Order("Other", d)>> : d \in Dirs}
    \cup {<<Order("Other", d1), Order("Value", d2)>> : d1, d2 \in Dirs}

MixedQueries ==
    {WithOrders(Query(r, ko), os) : r \in {OrderRoot, KindlessRoot}, ko \in BOOLEAN, os \in MixedOrders}

MixedNext ==
    \/ \E c \in MixedPutCalls : Put(c.keys, c.ents)
    \/ \E q \in MixedQueries : Run(q, FALSE)

MixedSpec == Init /\ [][MixedNext]_vars

(***************************************************************************)
(* Filters on a field that some records lack                               *)
(***************************************************************************)

\* Lists of filters with int64 values: one filter on Other, or a filter on
\* Other and one on Value in either order.
AbsentFilters ==
    {<<Filter("Other", op, Val("int64", v))>> : op \in {"<", "=", ">"}, v \in 1 .. 2}
    \cup {<<Filter("Other", "=", Val("int64", v)), Filter("Value", "=", Val("int64", 1))>> : v \in 1 .. 2}
    \cup {<<Filter("Value", "=", Val("int64", 1)), Filter("Other", "=", Val("int64", 2))>>}

AbsentPutCalls == {Call(<<k>>, Ptrs(<<e>>)) : k \in {oS1, oI1}, e \in MixedEntities}

\* The roots: the kind Test, and no kind.
AbsentQueries ==
    {WithFilters(Query(r, FALSE), fs) : r \in {OrderRoot, KindlessRoot}, fs \in AbsentFilters}

AbsentNext ==
    \/ \E c \in AbsentPutCalls : Put(c.keys, c.ents)
    \/ \E q \in AbsentQueries : Run(q, FALSE)

AbsentSpec == Init /\ [][AbsentNext]_vars

(***************************************************************************)
(* Filters whose value or operator the store does not support              *)
(***************************************************************************)

\* An operator that is none of the five of ds.FilterOp.
UnknownOp == "!="

\* Lists of filters on Value: a value of a type validateFilterValue does
\* not list, an unknown operator, a well-formed filter, and a well-formed
\* filter followed by one with an unlisted type.
ValidationFilters ==
    {<<Filter("Value", "=", Val(t, 1))>> : t \in {"bool", "time", "int64"}}
    \cup {<<Filter("Value", UnknownOp, Val("int64", 1))>>,
          <<Filter("Value", "=", Val("int64", 1)), Filter("Value", "=", Val("bool", 1))>>}

ValidationQueries ==
    {WithFilters(Query(r, ko), fs) : r \in {OrderRoot, KindlessRoot}, ko \in BOOLEAN, fs \in ValidationFilters}

ValidationNext ==
    \/ \E k \in {oS1, oI1}, e \in Entities : Put(<<k>>, Ptrs(<<e>>))
    \/ \E q \in ValidationQueries : Run(q, FALSE)

ValidationSpec == Init /\ [][ValidationNext]_vars

(***************************************************************************)
(* compareValues and compareKeys on their own                              *)
(***************************************************************************)

\* Complete keys of one to MaxLen path elements in two namespaces, with
\* int64 and string ids.
CompareElems ==
    {PathElem("P", id) : id \in {IntID(1), IntID(2), StrID(1), StrID(2)}} \cup {PathElem("C", IntID(1))}

CompareKeys ==
    {[ns |-> ns, path |-> p] :
        ns \in {"", "n"}, p \in UNION {[1 .. m -> CompareElems] : m \in 1 .. MaxLen}}

\* Two values of each scalar type compareValues knows, and the keys.
CompareValues ==
    {Val(t, v) : t \in {"int64", "float64", "string", "time"}, v \in 1 .. 2}
    \cup {Val("bool", v) : v \in 0 .. 1}
    \cup {Val("key", k) : k \in CompareKeys}

\* A pair of values has been drawn (res.q) and no function applied yet.
CompareInit ==
    /\ keyEntities = <<>>
    /\ paths = [a \in Addrs |-> <<>>]
    /\ lastIntID = 0
    /\ iter = NoIter
    /\ tx = "idle"
    /\ mutators = <<>>
    /\ dsSlice = NoDsSlice
    /\ res \in {[Result("input", <<>>, NoArg, "nil", <<>>, <<>>) EXCEPT !.q = <<l, r>>] :
                   l, r \in CompareValues}

\* A call compareValues(left, right) on the drawn pair; the result is
\* recorded in res.out.
CompareValuesCall ==
    /\ res.op = "input"
    /\ \E c \in {compareValues(res.q[1], res.q[2])} :
           res' = [Result("compareValues", <<>>, NoArg, IF c = 2 THEN "panic" ELSE "nil", <<>>, <<c>>)
                      EXCEPT !.q = res.q]
    /\ UNCHANGED <<keyEntities, paths, lastIntID, iter, tx, mutators, dsSlice>>

\* A call compareKeys(left, right) on a drawn pair of keys.
CompareKeysCall ==
    /\ res.op = "input"
    /\ res.q[1].t = "key" /\ res.q[2].t = "key"
    /\ \E c \in {compareKeys(res.q[1].v, res.q[2].v)} :
           res' = [Result("compareKeys", <<res.q[1].v, res.q[2].v>>, NoArg,
                          IF c = 2 THEN "panic" ELSE "nil", <<>>, <<c>>)
                      EXCEPT !.q = res.q]
    /\ UNCHANGED <<keyEntities, paths, lastIntID, iter, tx, mutators, dsSlice>>

CompareNext == CompareValuesCall \/ CompareKeysCall

CompareSpec == CompareInit /\ [][CompareNext]_vars

(***************************************************************************)
(* The caller's entity after Put and after txDs.Put                        *)
(***************************************************************************)

\* The caller assigns e to the struct it passed to the direct Put that has
\* just returned.  memDs.put stored val.Interface(), a copy of the struct,
\* so the store keeps what it has.
CallerSetsAfterPut(e) ==
    /\ Running /\ tx = "idle"
    /\ res.op = "Put" /\ res.err = "nil"
    /\ res' = [res EXCEPT !.op = "Set", !.ents = Ptrs([i \in 1 .. Len(res.ents.elems) |-> e])]
    /\ UNCHANGED <<keyEntities, paths, lastIntID, iter, tx, mutators, dsSlice>>

\* The caller assigns e to the struct it passed to the i-th queued Put.
\* The closure that txDs.Put appended holds the caller's entities argument
\* itself, so it sees the assignment.
CallerSetsQueued(i, e) ==
    /\ Running /\ tx = "active"
    /\ i \in 1 .. Len(mutators)
    /\ mutators[i].op = "Put"
    /\ mutators' = [mutators EXCEPT ![i].ents.elems = [j \in 1 .. Len(@) |-> [@[j] EXCEPT !.e = e]]]
    /\ res' = Result("Set", mutators[i].keys, mutators'[i].ents, "nil", <<>>, <<>>)
    /\ UNCHANGED <<keyEntities, paths, lastIntID, iter, tx, dsSlice>>

\* Every Put, direct or transactional, passes an entity whose Value is 1,
\* and every assignment of the caller writes the Value 2.
CallerNext ==
    \/ \E k \in {kP1, kPC} : Put(<<k>>, Ptrs(<<Entity(1)>>))
    \/ CallerSetsAfterPut(Entity(2))
    \/ \E k \in {kP1, kPC} : Get(<<k>>, Ptrs(<<ZeroEntity>>))
    \/ RunInTransaction
    \/ \E k \in {kP1, kPC} : txDsPut(<<k>>, Ptrs(<<Entity(1)>>))
    \/ \E i \in 1 .. MaxMut : CallerSetsQueued(i, Entity(2))
    \/ \E k \in {kP1, kPC} : txDsGet(<<k>>, Ptrs(<<ZeroEntity>>))
    \/ \E err \in {"nil", "user"} : BodyReturns(err)

CallerSpec == Init /\ [][CallerNext]_vars

(***************************************************************************)
(* Run through the transactional view                                      *)
(***************************************************************************)

TxRunNext ==
    \/ \E c \in TxSetupCalls : Put(c.keys, c.ents)
    \/ RunInTransaction
    \/ \E c \in TxPutCalls : txDsPut(c.keys, c.ents)
    \/ \E k \in {kP1, kPC} : txDsDelete(<<k>>)
    \/ \E q \in Queries : txDsRun(q)
    \/ \E err \in {"nil", "user"} : BodyReturns(err)

TxRunSpec == Init /\ [][TxRunNext]_vars

(***************************************************************************)
(* Key.Equal on its own                                                    *)
(***************************************************************************)

\* Keys of one to MaxLen path elements in two namespaces, with int and
\* string ids.
EqualElems == {PathElem(kind, id) : kind \in {"P", "C"}, id \in {IntID(1), StrID(1)}}

EqualKeys ==
    {[ns |-> ns, path |-> p] :
        ns \in {"", "n"}, p \in UNION {[1 .. m -> EqualElems] : m \in 1 .. MaxLen}}

\* A call k.Equal(key); the result is recorded in res.out.
KeyEqual(k, key) ==
    /\ Running
    /\ \E r \in {Equal(k, key)} :
           res' = Result("Equal", <<k, key>>, NoArg, IF r = "panic" THEN "panic" ELSE "nil", <<>>, <<r>>)
    /\ UNCHANGED <<keyEntities, paths, lastIntID, iter, tx, mutators, dsSlice>>

KeyNext == \E k, key \in EqualKeys : KeyEqual(k, key)

KeySpec == Init /\ [][KeyNext]_vars

(***************************************************************************)
(* The datastores of a context: AddDs, RemoveDs and the package functions  *)
(***************************************************************************)

\* The datastores that are registered, and the number of registrations the
\* exploration goes up to.
Dss == {"a", "b", "c"}

MaxDs == 3

\* AddDs: appends to the slice the context carries, or returns a context
\* with a new slice.
addDs(reg, d) ==
    IF reg.exists THEN [reg EXCEPT !.list = Append(@, d)]
    ELSE [exists |-> TRUE, list |-> <<d>>]

\* RemoveDs: removes the first entry that is d, if there is one.
removeDs(reg, d) ==
    IF reg.exists /\ \E i \in 1 .. Len(reg.list) : reg.list[i] = d
    THEN LET i == CHOOSE i \in 1 .. Len(reg.list) :
                     reg.list[i] = d /\ \A j \in 1 .. i - 1 : reg.list[j] # d
         IN  [reg EXCEPT !.list = RemoveAt(@, i)]
    ELSE reg

\* loopDs from entry i on, with f failing on the datastores of failing: the
\* datastores f was called on, in order, and the error returned.
RECURSIVE loopFrom(_, _, _, _)
loopFrom(list, failing, i, calls) ==
    IF i > Len(list) THEN [calls |-> calls, err |-> "nil"]
    ELSE IF list[i] \in failing THEN [calls |-> Append(calls, list[i]), err |-> "ds"]
    ELSE loopFrom(list, failing, i + 1, Append(calls, list[i]))

\* loopDs
loopDs(reg, failing) ==
    IF reg.exists THEN loopFrom(reg.list, failing, 1, <<>>)
    ELSE [calls |-> <<>>, err |-> "no implementation"]

AddDs(d) ==
    /\ Len(dsSlice.list) < MaxDs
    /\ dsSlice' = addDs(dsSlice, d)
    /\ res' = Result("AddDs", <<>>, NoArg, "nil", <<>>, <<d>>)
    /\ UNCHANGED <<keyEntities, paths, lastIntID, iter, tx, mutators>>

RemoveDs(d) ==
    /\ dsSlice' = removeDs(dsSlice, d)
    /\ res' = Result("RemoveDs", <<>>, NoArg, "nil", <<>>, <<d>>)
    /\ UNCHANGED <<keyEntities, paths, lastIntID, iter, tx, mutators>>

\* ds.Get on datastores whose Get fails for those of failing: the calls
\* are recorded in out and failing in q.
DsGet(failing) ==
    /\ \E r \in {loopDs(dsSlice, failing)} :
           res' = [Result("ds.Get", <<>>, NoArg, r.err, <<>>, r.calls) EXCEPT !.q = failing]
    /\ UNCHANGED <<keyEntities, paths, lastIntID, iter, tx, mutators, dsSlice>>

RegistryNext ==
    \/ \E d \in Dss : AddDs(d)
    \/ \E d \in Dss : RemoveDs(d)
    \/ \E failing \in SUBSET Dss : DsGet(failing)

RegistrySpec == Init /\ [][RegistryNext]_vars

(***************************************************************************)
(* Properties                                                              *)
(***************************************************************************)

\* The indexes of the stored records whose key is k (same namespace and
\* the same path, element for element).
RecordsIn(kes, hp, k) == {i \in 1 .. Len(kes) : KeyOf(hp, kes[i]) = k}

RecordsOf(k) == RecordsIn(keyEntities, paths, k)

Found(e) == [st |-> "found", e |-> e]

Dest1 == Ptrs(<<ZeroEntity>>)

\* C1 (round trip): a Get that directly follows a successful Put([k],[e])
\* and asks for the key Put returned reports found and yields e.
C1_RoundTrip ==
    [][\A k \in LookupKeys :
          (res.op = "Put" /\ res.err = "nil" /\ res.rkeys = <<k>> /\ Get(<<k>>, Dest1))
              => (res'.err = "nil" /\ res'.out = <<Found(res.ents.elems[1].e)>>)]_vars

\* C2 (Put overwrites): a successful Put([k],[e]) on a key k that already
\* has a record leaves exactly one record for k, and a Get of k yields e.
C2_PutOverwrites ==
    [][\A c \in PutCalls :
          (Len(c.keys) = 1 /\ RecordsOf(c.keys[1]) # {} /\ Put(c.keys, c.ents) /\ res'.err = "nil")
              => /\ Cardinality(RecordsIn(keyEntities', paths', c.keys[1])) = 1
                 /\ memDsGet(Cur', c.keys, Dest1).out = <<Found(c.ents.elems[1].e)>>]_vars

\* A Get call that is well formed: as many destinations as keys, each a
\* non-nil pointer to a struct.
WellFormedGet(keys, ents) ==
    /\ ents.shape = "ptrs"
    /\ Len(ents.elems) = Len(keys)
    /\ \A i \in 1 .. Len(keys) : ents.elems[i].k = "ptr"

\* The keys an iterator over q would yield in store S.
Yielded(S, q) ==
    LET r == memDsRun(S, q)
    IN  {KeyOf(r.S.paths, r.it.kes[i]) : i \in 1 .. Len(r.it.kes)}

\* C3 (Delete visibility): after Delete(keys) a Get reports not-found at
\* every index that asks for a deleted key and reports every other index
\* as it would have without the Delete, and no Run yields a deleted key.
C3_DeleteVisibility ==
    [][\A keys \in DeleteCalls :
          (Delete(keys) /\ res'.err = "nil")
              => /\ \A c \in GetCalls :
                       (WellFormedGet(c.keys, c.ents) /\ memDsGet(Cur, c.keys, c.ents).err # "panic")
                           => LET before == memDsGet(Cur, c.keys, c.ents).out
                                  after == memDsGet(Cur', c.keys, c.ents)
                              IN  /\ after.err # "panic"
                                  /\ \A i \in 1 .. Len(c.keys) :
                                        IF \E j \in 1 .. Len(keys) : keys[j] = c.keys[i]
                                        THEN after.out[i].st = "notfound"
                                        ELSE after.out[i] = before[i]
                 /\ \A q \in Queries, j \in 1 .. Len(keys) : keys[j] \notin Yielded(Cur', q)]_vars

\* C4 (Get has per-index results): a well-formed Get over N keys yields N
\* results; an index whose key has a record receives that record's fields,
\* every other index is marked not-found, and the error is nil exactly
\* when every key has a record.
C4_GetPerIndex ==
    (res.op = "Get" /\ WellFormedGet(res.keys, res.ents))
        => /\ res.err \in {"nil", "multi"}
           /\ Len(res.out) = Len(res.keys)
           /\ \A i \in 1 .. Len(res.keys) :
                 IF RecordsOf(res.keys[i]) # {}
                 THEN \E j \in RecordsOf(res.keys[i]) : res.out[i] = Found(keyEntities[j].entity)
                 ELSE res.out[i].st = "notfound"
           /\ (res.err = "nil") <=> (\A i \in 1 .. Len(res.keys) : RecordsOf(res.keys[i]) # {})

StoreUnchanged == keyEntities' = keyEntities /\ paths' = paths

LastMention(muts, i, k) ==
    \A i2 \in (i + 1) .. Len(muts) : \A j2 \in 1 .. Len(muts[i2].keys) : muts[i2].keys[j2] # k

WellFormedPut(m) ==
    /\ m.ents.shape = "ptrs"
    /\ Len(m.ents.elems) = Len(m.keys)
    /\ \A j \in 1 .. Len(m.keys) : m.ents.elems[j].k = "ptr"

\* C6 (commit ordering): nothing is applied while the scope is active, and
\* when the body returns nil every queued operation has been applied in
\* queue order: a key whose last queued operation is a Put is found with
\* the entity of that Put, a key whose last queued operation is a Delete
\* is not found.
C6_CommitOrdering ==
    [][/\ (tx = "active" /\ tx' = "active") => StoreUnchanged
       /\ BodyReturns("nil")
            => \A i \in 1 .. Len(mutators) : \A j \in 1 .. Len(mutators[i].keys) :
                  LET m == mutators[i]
                      k == m.keys[j]
                      got == memDsGet(Cur', <<k>>, Dest1).out
                  IN  LastMention(mutators, i, k)
                        => IF m.op = "Delete" THEN got[1].st = "notfound"
                           ELSE WellFormedPut(m) => got = <<Found(m.ents.elems[j].e)>>]_vars

\* C7 (atomic application): when RunInTransaction returns, either the
\* whole queue has been applied (it returns nil) or the stored records are
\* those the scope started with.
C7_AtomicApplication ==
    [][\A err \in {"nil", "user"} :
          BodyReturns(err) => (res'.err = "nil" \/ StoreUnchanged)]_vars

C9_NestedRejected ==
    [][/\ txDsRunInTransaction
            => /\ res'.err = "already in transaction"
               /\ tx' = "active"
               /\ UNCHANGED <<keyEntities, paths, lastIntID, mutators>>]_vars

\* A nested call has just been rejected in a scope that holds a queue.
C9_Witness == res.op = "txRunInTransaction" /\ tx = "active" /\ mutators # <<>>

\* The number of incomplete keys among the first i keys.
DrawsUpTo(keys, i) == Cardinality({j \in 1 .. i : IsIncomplete(keys[j])})

\* C10 (transactional Put of an incomplete key): the key returned before
\* commit is the given key completed with the next id of the counter, and
\* after a successful commit the store holds the entity under exactly that
\* key, no id being drawn by the replay.
C10_TxPutCompletesKey ==
    [][/\ \A c \in TxPutCalls :
             txDsPut(c.keys, c.ents)
                => /\ Len(res'.rkeys) = Len(c.keys)
                   /\ \A i \in 1 .. Len(c.keys) :
                         res'.rkeys[i] =
                            IF IsIncomplete(c.keys[i])
                            THEN [c.keys[i] EXCEPT !.path[Len(c.keys[i].path)].id =
                                                       IntID(lastIntID + DrawsUpTo(c.keys, i))]
                            ELSE c.keys[i]
       /\ (BodyReturns("nil") /\ res'.err = "nil")
            => /\ lastIntID' = lastIntID
               /\ \A i \in 1 .. Len(mutators) : \A j \in 1 .. Len(mutators[i].keys) :
                     LET m == mutators[i]
                     IN  (m.op = "Put" /\ IsIncomplete(m.given[j]) /\ WellFormedPut(m)
                            /\ LastMention(mutators, i, m.keys[j]))
                           => \E r \in RecordsIn(keyEntities', paths', m.keys[j]) :
                                 keyEntities'[r].entity = m.ents.elems[j].e]_vars

\* The id of the leaf of key k.
LeafID(k) == k.path[Len(k.path)].id

\* C11 (id monotonicity of AllocateKeys): the n keys AllocateKeys returns
\* carry int ids that increase strictly in result order (so they are
\* pairwise distinct) and are all greater than every id the counter has
\* produced before the call.
C11_AllocateMonotonic ==
    [][\A parent \in {kPn, kPC}, n \in 0 .. 2 :
          AllocateKeys(parent, n)
              => /\ Len(res'.rkeys) = n
                 /\ \A i \in 1 .. n :
                       /\ LeafID(res'.rkeys[i]).t = "int"
                       /\ LeafID(res'.rkeys[i]).v > lastIntID
                 /\ \A i, j \in 1 .. n :
                       i < j => LeafID(res'.rkeys[i]).v < LeafID(res'.rkeys[j]).v]_vars

\* The key Put returns for the i-th pair when the counter stood at last:
\* an incomplete key completed with the next id, a complete key as given.
Completed(keys, i, last) ==
    IF IsIncomplete(keys[i])
    THEN [keys[i] EXCEPT !.path[Len(keys[i].path)].id = IntID(last + DrawsUpTo(keys, i))]
    ELSE keys[i]

\* C12 (Put completes incomplete keys): a well-formed Put returns one key
\* per pair in input order; an incomplete key comes back with the next id
\* of the counter and its namespace, ancestor path and leaf kind as given,
\* a complete key comes back unchanged; and afterwards every pair that had
\* an incomplete key has a record of its own under the returned key.
C12_PutCompletesKeys ==
    [][\A c \in PutCalls :
          (WellFormedGet(c.keys, c.ents) /\ Put(c.keys, c.ents))
              => /\ res'.err = "nil"
                 /\ Len(res'.rkeys) = Len(c.keys)
                 /\ \A i \in 1 .. Len(c.keys) : res'.rkeys[i] = Completed(c.keys, i, lastIntID)
                 /\ \A i \in 1 .. Len(c.keys) :
                       IsIncomplete(c.keys[i])
                           => RecordsIn(keyEntities', paths', Completed(c.keys, i, lastIntID)) # {}
                 /\ \A i, j \in 1 .. Len(c.keys) :
                       (i # j /\ IsIncomplete(c.keys[i]) /\ IsIncomplete(c.keys[j]))
                           => Completed(c.keys, i, lastIntID) # Completed(c.keys, j, lastIntID)]_vars

\* The key k with its leaf id removed: namespace, ancestor path, leaf kind.
Template(k) == [k EXCEPT !.path[Len(k.path)].id = NilID]

C14_EqualStructural ==
    res.op = "Equal"
        => /\ res.out[1] = (IF res.keys[1] = res.keys[2] THEN "true" ELSE "false")
           /\ Equal(res.keys[2], res.keys[1]) = res.out[1]

\* C15 (store uniqueness): in every reachable state no two stored records
\* have the same key.
C15_OneRecordPerKey ==
    \A i, j \in 1 .. Len(keyEntities) :
        KeyOf(paths, keyEntities[i]) = KeyOf(paths, keyEntities[j]) => i = j

\* The stored records as (key, fields) pairs, in store order.
Records(kes, hp) == [i \in 1 .. Len(kes) |-> [key |-> KeyOf(hp, kes[i]), entity |-> kes[i].entity]]

\* The records of rs whose key is none of keys, in the order of rs.
RECURSIVE Without(_, _)
Without(rs, keys) ==
    IF rs = <<>> THEN <<>>
    ELSE IF \E j \in 1 .. Len(keys) : keys[j] = Head(rs).key THEN Without(Tail(rs), keys)
    ELSE <<Head(rs)>> \o Without(Tail(rs), keys)

\* C16 (Delete touches only what it names): Delete(keys) returns no error,
\* removes the records whose key is one of keys and leaves every other
\* record stored with its key and fields; when no record has one of the
\* keys nothing changes.
C16_DeleteFrame ==
    [][\A keys \in DeleteCalls :
          Delete(keys)
              => /\ res'.err = "nil"
                 /\ Records(keyEntities', paths') = Without(Records(keyEntities, paths), keys)]_vars

\* A Put call the validation is to reject: not a slice, lengths that
\* differ, or an element that is no record (a nil pointer, a non-struct).
MalformedPut(keys, ents) ==
    \/ ents.shape = "notslice"
    \/ Len(ents.elems) # Len(keys)
    \/ \E i \in 1 .. Len(ents.elems) : ents.elems[i].k \in {"nilptr", "other"}

\* C17 (Put validates before mutating): a malformed Put returns an error
\* and leaves the stored records exactly as they were.
C17_PutValidates ==
    [][\A c \in PutCalls :
          (MalformedPut(c.keys, c.ents) /\ Put(c.keys, c.ents))
              => /\ res'.err \notin {"nil", "panic"}
                 /\ Records(keyEntities', paths') = Records(keyEntities, paths)]_vars

\* The keys and entities the last Run yields, as (key, fields) pairs.
YieldedRecords(r) == {[key |-> r.rkeys[i], entity |-> r.out[i].e] : i \in 1 .. Len(r.rkeys)}

\* A record is in the scope of the ancestor root: its namespace is the
\* root's, its first path element is the root's and its leaf kind is the
\* root's leaf kind.
InScope(root, key) ==
    /\ key.ns = root.ns
    /\ Len(key.path) >= Len(root.path)
    /\ key.path[1] = root.path[1]
    /\ key.path[Len(key.path)].kind = root.path[Len(root.path)].kind

\* C18 (ancestor scoping): a query without filters rooted at
\* [(P,1),(C,incomplete)] yields exactly the stored records below (P,1)
\* with leaf kind C in the root's namespace, each with the key and fields
\* it was stored with.
C18_AncestorScoping ==
    [][\A ko \in BOOLEAN :
          Run(Query(AncestorRoot, ko), FALSE)
              => /\ res'.err = "nil"
                 /\ YieldedRecords(res')
                      = {r \in {Records(keyEntities, paths)[i] : i \in 1 .. Len(keyEntities)} :
                            InScope(AncestorRoot, r.key)}]_vars

\* The records of rs that are not in namespace ns, in the order of rs.
OutsideNamespace(rs, ns) == SelectSeq(rs, LAMBDA r : r.key.ns # ns)

\* C19 (namespace isolation): every record a Run yields is in the
\* namespace of the query root, whatever the root and the filters are; a
\* Get that reports found returns the fields of a record of the key's own
\* namespace; and a Delete leaves the records of every other namespace as
\* they are.
C19_NamespaceIsolation ==
    [][/\ res'.op = "Run"
            => \A i \in 1 .. Len(res'.rkeys) : res'.rkeys[i].ns = res'.keys[1].ns
       /\ (res'.op = "Get" /\ res'.err = "nil")
            => \A i \in 1 .. Len(res'.keys) :
                  \E j \in 1 .. Len(keyEntities) :
                      /\ keyEntities[j].ns = res'.keys[i].ns
                      /\ keyEntities[j].entity = res'.out[i].e
       /\ res'.op = "Delete"
            => \A i \in 1 .. Len(res'.keys) :
                  OutsideNamespace(Records(keyEntities', paths'), res'.keys[i].ns)
                     = OutsideNamespace(Records(keyEntities, paths), res'.keys[i].ns)]_vars

\* A Run rooted in namespace "n" has yielded a record while the store also
\* holds a record of the same path in the other namespace.
C19_Witness ==
    /\ res.op = "Run" /\ res.keys[1].ns = "n" /\ Len(res.rkeys) = 1
    /\ \E i, j \in 1 .. Len(keyEntities) :
          /\ keyEntities[i].ns = "n" /\ keyEntities[j].ns = ""
          /\ paths[keyEntities[i].ref] = paths[keyEntities[j].ref]

\* The comparison op on two numbers.
Holds(op, a, b) ==
    CASE op = "<" -> a < b
      [] op = "<=" -> a <= b
      [] op = "=" -> a = b
      [] op = ">=" -> a >= b
      [] op = ">" -> a > b

\* The (key, fields) pairs the iterator of r yields.
IteratorRecords(r) ==
    {[key |-> KeyOf(r.S.paths, r.it.kes[i]), entity |-> r.it.kes[i].entity] : i \in 1 .. Len(r.it.kes)}

\* C20 (scalar filter semantics): a Run whose filters compare the int64
\* field Value with int64 values returns no error and yields, of the
\* records the same query without filters yields, exactly those whose
\* Value satisfies every filter.
C20_ScalarFilters ==
    [][(res'.op = "Run" /\ res'.q # <<>> /\ \A j \in 1 .. Len(res'.q) : res'.q[j] \in ScalarFilters)
          => /\ res'.err = "nil"
             /\ YieldedRecords(res')
                  = {r \in IteratorRecords(memDsRun(Cur, Query(res'.keys[1], FALSE))) :
                        \A j \in 1 .. Len(res'.q) :
                            Holds(res'.q[j].op, r.entity.Value, res'.q[j].value.v)}]_vars

\* The entity has the list-valued field name.
HasList(e, name) == name \in DOMAIN FieldsOf(e) /\ FieldsOf(e)[name].t = "slice"

\* Some element of the entity's list satisfies filter f.
SomeElement(e, f) ==
    \E j \in 1 .. Len(FieldsOf(e)[f.name].v) : Holds(f.op, FieldsOf(e)[f.name].v[j].v, f.value.v)

\* The entities of a sequence of records or yields.
EntitiesOf(s) == [i \in 1 .. Len(s) |-> IF "e" \in DOMAIN s[i] THEN s[i].e ELSE s[i].entity]

KeyFilterHolds(r, f) ==
    IF f.name = "__key__" THEN compareKeys(r.key, f.value.v) = 0
    ELSE compareKeys(FieldsOf(r.entity)[f.name].v, f.value.v) = 0

\* C22 (key-valued filters): a Run whose filters compare the key-valued
\* property KeyValue or the name __key__ with a key for equality returns no
\* error and yields exactly the stored records of the kind that satisfy
\* every filter under the key comparison.
C22_KeyFilters ==
    [][(res'.op = "Run" /\ res'.q # <<>> /\ \A j \in 1 .. Len(res'.q) : res'.q[j] \in KeyFilters)
          => /\ res'.err = "nil"
             /\ [i \in 1 .. Len(res'.rkeys) |-> [key |-> res'.rkeys[i], entity |-> res'.out[i].e]]
                  = SelectSeq(Records(keyEntities, paths),
                              LAMBDA r : \A j \in 1 .. Len(res'.q) : KeyFilterHolds(r, res'.q[j]))]_vars

\* The yielded records of r in the order the iterator yields them.
YieldedSeq(r) == [i \in 1 .. Len(r.rkeys) |-> [key |-> r.rkeys[i], entity |-> r.out[i].e]]

\* The comparison of two records under one order clause.
ClauseCompare(r1, r2, o) ==
    IF o.name = "__key__" THEN compareKeys(r1.key, r2.key)
    ELSE compareValues(FieldsOf(r1.entity)[o.name], FieldsOf(r2.entity)[o.name])

\* r1 may precede r2 under the orders from clause n on: the first clause
\* on which they compare non-zero puts r1 first.
RECURSIVE MayPrecede(_, _, _, _)
MayPrecede(r1, r2, orders, n) ==
    IF n > Len(orders) THEN TRUE
    ELSE LET c == ClauseCompare(r1, r2, orders[n])
         IN  IF c = 0 THEN MayPrecede(r1, r2, orders, n + 1)
             ELSE IF orders[n].dir = AscDir THEN c = -1
             ELSE c = 1

\* C23 (sorting): a Run with orders returns no error and yields the records
\* the query without orders yields, any two of them in an order that the
\* first clause on which they compare non-zero allows, ascending or
\* descending as the clause says.
C23_Sorting ==
    [][(res'.op = "Run" /\ res'.orders # <<>>)
          => /\ res'.err = "nil"
             /\ YieldedRecords(res')
                  = IteratorRecords(memDsRun(Cur, WithFilters(Query(res'.keys[1], FALSE), res'.q)))
             /\ \A i, j \in 1 .. Len(res'.rkeys) :
                   i < j => MayPrecede(YieldedSeq(res')[i], YieldedSeq(res')[j], res'.orders, 1)]_vars

\* The place of a kind of value in the precedence
\* Int64 < Timestamp < Bool < String < Float64 < KeyRef.
Precedence(t) ==
    CASE t = "int64" -> 1
      [] t = "time" -> 2
      [] t = "bool" -> 3
      [] t = "string" -> 4
      [] t = "float64" -> 5
      [] t = "key" -> 6

UsableDest(it, el) ==
    \/ el.k = "ptr"
    \/ el.k = "nil" /\ (it.keysOnly \/ it.index >= Len(it.kes))

Held(it, hp) == [i \in 1 .. Len(it.kes) |-> [key |-> KeyOf(hp, it.kes[i]), entity |-> it.kes[i].entity]]

\* C26 (iterator snapshot): while an iterator is held, no Put, Delete, Next
\* or other Run changes the sequence of keys and fields it yields; only the
\* Run that returns the next iterator to be held (the one rooted at no
\* kind) replaces it.
C26_IteratorSnapshot ==
    [][(iter.open /\ ~(res'.op = "Run" /\ res'.keys[1] = KindlessRoot))
          => Held(iter', paths') = Held(iter, paths)]_vars

\* The number of times d occurs in the sequence s.
Count(s, d) == Cardinality({i \in 1 .. Len(s) : s[i] = d})

\* The datastores registered at the moment, in the order of their first
\* registration.
Registered(list) == Dedup(list, <<>>)

\* The registered datastores up to the first one that fails.
RECURSIVE UpToFirstError(_, _)
UpToFirstError(s, failing) ==
    IF s = <<>> THEN <<>>
    ELSE IF Head(s) \in failing THEN <<Head(s)>>
    ELSE <<Head(s)>> \o UpToFirstError(Tail(s), failing)

\* C27 (datastore registry): ds.Get calls the datastores registered on the
\* context in the order of their registration, each one once, and stops
\* after the first that fails; a datastore that RemoveDs removed is not
\* registered afterwards, so that no later operation calls it, and the
\* other registrations keep their order.
C27_Registry ==
    [][/\ (res'.op = "ds.Get" /\ dsSlice.exists)
             => /\ res'.out = UpToFirstError(Registered(dsSlice.list), res'.q)
                /\ res'.err = (IF \E i \in 1 .. Len(dsSlice.list) : dsSlice.list[i] \in res'.q
                               THEN "ds" ELSE "nil")
       /\ res'.op = "RemoveDs"
             => /\ Count(dsSlice'.list, res'.out[1]) = 0
                /\ SelectSeq(dsSlice'.list, LAMBDA d : d # res'.out[1])
                     = SelectSeq(dsSlice.list, LAMBDA d : d # res'.out[1])]_vars

\* C28 (id counter): no step lowers the id counter, a transaction that
\* aborts included; every id that a Put or a transactional Put gives to an
\* incomplete key, and every id a key returned by AllocateKeys carries, is
\* above the counter as it stood before the call (hence above every id
\* issued earlier) and not above the counter after it; the counter moves by
\* the number of ids drawn; and the ids one Put gives are increasing.
C28_IdCounter ==
    [][/\ lastIntID' >= lastIntID
       /\ res'.op \in {"Put", "txPut"}
             => /\ \A i \in 1 .. Len(res'.rkeys) :
                      IsIncomplete(res'.keys[i])
                         => /\ LeafID(res'.rkeys[i]).t = "int"
                            /\ LeafID(res'.rkeys[i]).v > lastIntID
                            /\ LeafID(res'.rkeys[i]).v <= lastIntID'
                /\ \A i, j \in 1 .. Len(res'.rkeys) :
                      (i < j /\ IsIncomplete(res'.keys[i]) /\ IsIncomplete(res'.keys[j]))
                         => LeafID(res'.rkeys[i]).v < LeafID(res'.rkeys[j]).v
                /\ res'.err = "nil" => lastIntID' = lastIntID + Draws(res'.keys)
       /\ res'.op \in {"AllocateKeys", "txAllocateKeys"}
             => /\ lastIntID' = lastIntID + Len(res'.rkeys)
                /\ \A i \in 1 .. Len(res'.rkeys) :
                      /\ LeafID(res'.rkeys[i]).t = "int"
                      /\ LeafID(res'.rkeys[i]).v > lastIntID
                      /\ LeafID(res'.rkeys[i]).v <= lastIntID'
       /\ res'.op \notin {"Put", "txPut", "AllocateKeys", "txAllocateKeys"}
             => lastIntID' = lastIntID]_vars

\* A transaction whose Put drew an id has aborted and the counter still
\* stands at that id.
C28_Witness ==
    /\ res.op = "RunInTransaction" /\ res.err = "user"
    /\ \E m \in 1 .. Len(res.q) :
          /\ res.q[m].op = "Put"
          /\ IsIncomplete(res.q[m].given[1])
          /\ LeafID(res.q[m].keys[1]).v = lastIntID
    /\ lastIntID > 1

\* The first n elements of the path of key.
Truncated(key, n) == [key EXCEPT !.path = SubSeq(@, 1, n)]

\* key lies at or below the complete key root: its namespace is the root's
\* and its path begins with the root's path, element for element.
AtOrBelow(root, key) ==
    /\ key.ns = root.ns
    /\ Len(key.path) >= Len(root.path)
    /\ Truncated(key, Len(root.path)).path = root.path

\* C29 (complete ancestor leaf): isAncestor(a, c) for an a whose leaf id is
\* complete is true exactly when c's path cut to a's length is a's path, and
\* a Run without filters rooted at a complete key returns no error and
\* yields, with the keys they were stored with, exactly the stored records
\* of the root's leaf kind whose path begins with the root's path.
C29_CompleteAncestor ==
    [][(res'.op = "Run" /\ res'.q = <<>> /\ ~IsIncomplete(res'.keys[1]))
          => /\ \A i \in 1 .. Len(keyEntities) :
                   (keyEntities[i].ns = res'.keys[1].ns /\ ~IsIncomplete(KeyOf(paths, keyEntities[i])))
                      => isAncestor(paths, res'.keys[1], keyEntities[i]).ok
                           = AtOrBelow(res'.keys[1], KeyOf(paths, keyEntities[i]))
             /\ res'.err = "nil"
             /\ YieldedRecords(res')
                  = {r \in {Records(keyEntities, paths)[i] : i \in 1 .. Len(keyEntities)} :
                        /\ AtOrBelow(res'.keys[1], r.key)
                        /\ r.key.path[Len(r.key.path)].kind
                             = res'.keys[1].path[Len(res'.keys[1].path)].kind}]_vars

\* key is in the scope of a root without a kind: the namespace is the
\* root's and the path begins with the root's path up to its leaf, which
\* stands for any kind and id.
InKindlessScope(root, key) ==
    /\ key.ns = root.ns
    /\ Len(key.path) >= Len(root.path)
    /\ SubSeq(key.path, 1, Len(root.path) - 1) = SubSeq(root.path, 1, Len(root.path) - 1)

\* C30 (kindless query): a Run whose root has an empty leaf kind returns no
\* error and yields exactly the stored records of any kind that are in the
\* root's namespace, below the root's ancestors, and whose Value satisfies
\* every filter.
C30_KindlessQuery ==
    [][(res'.op = "Run" /\ res'.keys[1].path[Len(res'.keys[1].path)].kind = "")
          => /\ res'.err = "nil"
             /\ YieldedRecords(res')
                  = {r \in {Records(keyEntities, paths)[i] : i \in 1 .. Len(keyEntities)} :
                        /\ InKindlessScope(res'.keys[1], r.key)
                        /\ \A j \in 1 .. Len(res'.q) :
                              Holds(res'.q[j].op, r.entity.Value, res'.q[j].value.v)}]_vars

\* The entity has the property the name stands for.
HasProperty(entity, name) == name \in DOMAIN FieldsOf(entity)

\* C31 (missing sort property): a Run whose first order clause is on a
\* property yields no record that lacks the property before a record that
\* has it, whether the clause is ascending or descending.
C31_MissingSortProperty ==
    [][(res'.op = "Run" /\ res'.err = "nil" /\ res'.orders # <<>> /\ res'.orders[1].name # "__key__")
          => \A i, j \in 1 .. Len(res'.out) :
                (i < j /\ HasProperty(res'.out[j].e, res'.orders[1].name))
                   => HasProperty(res'.out[i].e, res'.orders[1].name)]_vars

\* C32 (both-absent order clause): for two stored records that both lack
\* the property Other, Less under orders that begin with a clause on Other
\* is false in both directions whatever a later clause on Value would say,
\* and a Run with such orders over records that all lack Other returns no
\* error and yields them in the order of the store.
C32_BothAbsent ==
    [][/\ \A i, j \in 1 .. Len(keyEntities), os \in MixedOrders :
             (~HasProperty(keyEntities[i].entity, "Other") /\ ~HasProperty(keyEntities[j].entity, "Other"))
                => Less(paths, keyEntities[i], keyEntities[j], os) = "false"
       /\ (/\ res'.op = "Run" /\ res'.orders \in MixedOrders
           /\ \A i \in 1 .. Len(keyEntities) : ~HasProperty(keyEntities[i].entity, "Other"))
             => /\ res'.err = "nil"
                /\ EntitiesOf(res'.out) = [i \in 1 .. Len(keyEntities) |-> keyEntities[i].entity]]_vars

\* A Run ordered on Other and then on Value, both ascending, has yielded
\* the record with Value 2 before the record with Value 1.
C32_Witness ==
    /\ res.op = "Run" /\ res.err = "nil"
    /\ res.orders = <<Order("Other", AscDir), Order("Value", AscDir)>>
    /\ EntitiesOf(res.out) = <<Entity(2), Entity(1)>>

\* The filters that name the key or a field the entity has.
PresentFilters(entity, filters) ==
    SelectSeq(filters, LAMBDA f : f.name = "__key__" \/ HasProperty(entity, f.name))

\* The indexes of the stored records that a Run removes when, for each
\* record, the filters on fields the record lacks are left out of the query.
RemovedWithoutAbsent(root, filters) ==
    {i \in 1 .. Len(keyEntities) :
        i \in scan(keyEntities, paths,
                   WithFilters(Query(root, FALSE), PresentFilters(keyEntities[i].entity, filters)),
                   1, {}).rm}

\* C33 (filter on an absent field): a Run with filters returns no error
\* and yields each stored record exactly when the Run without the filters
\* that name a field the record lacks would keep it.
C33_AbsentField ==
    [][(res'.op = "Run" /\ res'.q # <<>>)
          => /\ res'.err = "nil"
             /\ EntitiesOf(res'.out)
                  = EntitiesOf(keep(keyEntities, RemovedWithoutAbsent(res'.keys[1], res'.q), 1))]_vars

\* A Run filtered on Other = 2 under the kind Test has yielded the record
\* without the field Other and left out the stored record whose Other is 1.
C33_Witness ==
    /\ res.op = "Run" /\ res.err = "nil"
    /\ res.keys = <<OrderRoot>>
    /\ res.q = <<Filter("Other", "=", Val("int64", 2))>>
    /\ EntitiesOf(res.out) = <<Entity(1)>>
    /\ Len(keyEntities) = 2
    /\ keyEntities[1].entity = PairEntity(1, 1)

\* The filter has a value of a type validateFilterValue does not list, or
\* an operator that is none of the five.
Malformed(f) == validateFilterValue(f.value) # "nil" \/ f.op \notin FilterOps

\* C34 (filter validation): a Run whose query has a malformed filter
\* returns the validation error and yields nothing, whatever the store
\* holds.
C34_FilterValidation ==
    [][(res'.op = "Run" /\ \E j \in 1 .. Len(res'.q) : Malformed(res'.q[j]))
          => /\ res'.err = "filter"
             /\ res'.out = <<>>]_vars

\* The key without its last path element.
ParentOf(k) == [k EXCEPT !.path = SubSeq(@, 1, Len(@) - 1)]

\* The last path element's id.
LeafIDOf(k) == k.path[Len(k.path)].id

\* C35 (key comparison algorithm): compareKeys on two complete keys puts
\* the key with more ancestors first; at equal depth an int64 leaf id
\* before a string leaf id, then the smaller leaf id first; with identical
\* leaf ids it returns what it returns for the two parents, and 0 when
\* there are no parents.
C35_KeyComparison ==
    res.op = "compareKeys"
       => LET l == res.keys[1]
              r == res.keys[2]
              c == res.out[1]
              ll == Len(l.path)
              rl == Len(r.path)
              lid == LeafIDOf(l)
              rid == LeafIDOf(r)
          IN  /\ res.err = "nil"
              /\ ll > rl => c = -1
              /\ ll < rl => c = 1
              /\ ll = rl
                   => /\ (lid.t = "int" /\ rid.t = "str") => c = -1
                      /\ (lid.t = "str" /\ rid.t = "int") => c = 1
                      /\ (lid.t = rid.t /\ lid.v < rid.v) => c = -1
                      /\ (lid.t = rid.t /\ lid.v > rid.v) => c = 1
                      /\ (lid = rid /\ ll > 1) => c = compareKeys(ParentOf(l), ParentOf(r))
                      /\ (lid = rid /\ ll = 1) => c = 0

\* compareKeys has compared two keys of two path elements with identical
\* leaf ids whose parents have the ids "1" and int64 2, and has returned 1:
\* the parents decided, the int64 one first.
C35_Witness ==
    /\ res.op = "compareKeys"
    /\ Len(res.keys[1].path) = 2 /\ Len(res.keys[2].path) = 2
    /\ LeafIDOf(res.keys[1]) = LeafIDOf(res.keys[2])
    /\ LeafIDOf(ParentOf(res.keys[1])) = StrID(1)
    /\ LeafIDOf(ParentOf(res.keys[2])) = IntID(2)
    /\ res.out = <<1>>

\* The sign of a comparison seen from the other side.
Opposite(c) == 0 - c

\* C36 (total order): for the two values compareValues was called on,
\* compare(a, b) = -compare(b, a); compare(a, b) = 0 only when a and b are
\* equal; and with every third value c, a <= b and b <= c give a <= c.
C36_TotalOrder ==
    res.op = "compareValues"
       => LET a == res.q[1]
              b == res.q[2]
          IN  /\ res.err = "nil"
              /\ res.out[1] = Opposite(compareValues(b, a))
              /\ res.out[1] = 0 => a = b
              /\ \A c \in CompareValues :
                    (res.out[1] <= 0 /\ compareValues(b, c) <= 0) => compareValues(a, c) <= 0

\* C37 (records are snapshots): where every Put and every transactional
\* Put passes an entity whose Value is 1 and the caller writes only the
\* Value 2 into its entities afterwards, every record a Get finds has the
\* Value 1.
C37_Snapshot ==
    res.op \in {"Get", "txGet"}
       => \A i \in 1 .. Len(res.out) : res.out[i].st = "found" => res.out[i].e = Entity(1)

\* C38 (Run is read-only): a Run and a Next leave the key and the entity of
\* every stored record and the id counter as they were.
C38_RunReadOnly ==
    [][res'.op \in {"Run", "Next"}
          => /\ Records(keyEntities', paths') = Records(keyEntities, paths)
             /\ lastIntID' = lastIntID]_vars

\* C39 (auto-assigned ids never collide): a Put that returns no error gives
\* every incomplete key a key that no stored record had before the call,
\* adds a record for each of them, and leaves the records that were stored
\* as they were.
C39_NoCollision ==
    [][(res'.op = "Put" /\ res'.err = "nil"
        /\ \A i \in 1 .. Len(res'.keys) : IsIncomplete(res'.keys[i]))
          => /\ \A i \in 1 .. Len(res'.keys), j \in 1 .. Len(keyEntities) :
                   res'.rkeys[i] # KeyOf(paths, keyEntities[j])
             /\ Len(keyEntities') = Len(keyEntities) + Len(res'.keys)
             /\ SubSeq(Records(keyEntities', paths'), 1, Len(keyEntities)) = Records(keyEntities, paths)]_vars

\* C40 (no queries inside a transaction): a Run through the transactional
\* view returns the error "not implemented" and no iterator, yields
\* nothing, and leaves the stored records, the id counter, the queue of the
\* transaction and the transaction itself as they were.
C40_TxRunNotImplemented ==
    [][res'.op = "txRun"
          => /\ res'.err = "not implemented"
             /\ res'.rkeys = <<>> /\ res'.out = <<>>
             /\ iter' = iter
             /\ Records(keyEntities', paths') = Records(keyEntities, paths)
             /\ lastIntID' = lastIntID
             /\ mutators' = mutators
             /\ tx' = tx]_vars

\* A Run through the transactional view has returned while the store held
\* a record of the queried kind and a Put was queued.
C40_Witness ==
    /\ res.op = "txRun" /\ res.keys = <<kPn>>
    /\ tx = "active"
    /\ \E i \in 1 .. Len(keyEntities) : KeyOf(paths, keyEntities[i]) = kP1
    /\ \E i \in 1 .. Len(mutators) : mutators[i].op = "Put"

====
